---------------------------- MODULE Spec2Model ----------------------------
(***************************************************************************)
(* Model of the reward core of the gamified perps backend:                 *)
(* XPService.awardXP and the stores it works on (PostgreSQL user_stats,    *)
(* xp_logs and achievements tables, the Redis cooldown keys, ranking       *)
(* sorted sets and the xp_intents list, the StarknetService mint calls and *)
(* the WebSocket pushes).  One action per await of awardXP; every throwing *)
(* store call has its own failing action.                                  *)
(***************************************************************************)
EXTENDS Integers, Sequences, FiniteSets, TLC

(***************************************************************************)
(* Bounds of the model.                                                    *)
(***************************************************************************)
MaxCalls == 2

MaxFaults == 1

MaxTotalXP == 10100

MaxBase == 500

MaxStreak == 8

Procs == {1, 2}

Users == {1}

(***************************************************************************)
(* Action catalog (initializeXPActions).  A cooldown or maxDaily of 0      *)
(* stands for the absent (undefined, falsy) field.                         *)
(***************************************************************************)
XPAction(t, b, c, m) == [type |-> t, baseAmount |-> b, cooldown |-> c, maxDaily |-> m]

xpActions ==
  [a \in {"first_trade", "trade_executed", "profitable_trade", "loss_trade",
          "mock_trade", "daily_login", "streak_7", "streak_30",
          "referral_joined", "achievement_shared"} |->
     CASE a = "first_trade"        -> XPAction(a, 100, 0, 0)
       [] a = "trade_executed"     -> XPAction(a, 20, 60, 0)
       [] a = "profitable_trade"   -> XPAction(a, 50, 0, 0)
       [] a = "loss_trade"         -> XPAction(a, 10, 0, 0)
       [] a = "mock_trade"         -> XPAction(a, 15, 0, 10)
       [] a = "daily_login"        -> XPAction(a, 5, 86400, 0)
       [] a = "streak_7"           -> XPAction(a, 100, 0, 0)
       [] a = "streak_30"          -> XPAction(a, 500, 0, 0)
       [] a = "referral_joined"    -> XPAction(a, 200, 0, 0)
       [] a = "achievement_shared" -> XPAction(a, 25, 3600, 0)]

ActionTypes == DOMAIN xpActions

(***************************************************************************)
(* Level thresholds (initializeLevelThresholds): levelThresholds[i] is the *)
(* cumulative XP of level i (the source array is 0-indexed, level i+1).    *)
(***************************************************************************)
levelThresholds == <<0, 100, 300, 600, 1000, 1600, 2500, 4000, 6000, 10000>>

(***************************************************************************)
(* calculateLevel: scan from the highest threshold down, return the first  *)
(* level whose threshold is reached, 1 if none is.                         *)
(***************************************************************************)
\* mutant: a total on a threshold does not reach the level
RECURSIVE calculateLevelFrom_Strict(_, _)
calculateLevelFrom_Strict(totalXP, i) ==
  IF i < 1 THEN 1
  ELSE IF totalXP > levelThresholds[i] THEN i
       ELSE calculateLevelFrom_Strict(totalXP, i - 1)

RECURSIVE calculateLevelFrom(_, _)
calculateLevelFrom(totalXP, i) ==
  IF i < 1 THEN 1
  ELSE IF totalXP >= levelThresholds[i] THEN i
       ELSE calculateLevelFrom(totalXP, i - 1)

calculateLevel(totalXP) == calculateLevelFrom(totalXP, Len(levelThresholds))

(***************************************************************************)
(* IEEE-754 binary64 arithmetic as JavaScript numbers do it.  A positive   *)
(* number is [m, e] with value m * 2^e; m is a natural number kept as a    *)
(* little-endian sequence of 16-bit limbs (TLC integers are 32 bits wide). *)
(* A product is the exact product rounded to 53 significant bits, ties to  *)
(* even.                                                                   *)
(***************************************************************************)
LimbBase == 2 ^ 16

Pow2(n) == 2 ^ n

RECURSIVE BigTrim(_)
BigTrim(x) ==
  IF Len(x) > 1 /\ x[Len(x)] = 0 THEN BigTrim(SubSeq(x, 1, Len(x) - 1)) ELSE x

RECURSIVE BigMulCarry(_, _, _)
BigMulCarry(x, k, carry) ==
  IF x = << >> THEN (IF carry = 0 THEN << >> ELSE <<carry>>)
  ELSE LET v == x[1] * k + carry
       IN  <<v % LimbBase>> \o BigMulCarry(Tail(x), k, v \div LimbBase)

BigMulSmall(x, k) == BigTrim(BigMulCarry(x, k, 0))

RECURSIVE BitLen(_)
BitLen(n) == IF n = 0 THEN 0 ELSE 1 + BitLen(n \div 2)

BigBitLen(x) == (Len(x) - 1) * 16 + BitLen(x[Len(x)])

RECURSIVE BigShrBits(_, _)
BigShrBits(x, s) ==
  IF x = << >> THEN << >>
  ELSE LET hi == IF Len(x) > 1 THEN x[2] % Pow2(s) ELSE 0
       IN  <<(x[1] \div Pow2(s)) + hi * Pow2(16 - s)>> \o BigShrBits(Tail(x), s)

RECURSIVE BigShr(_, _)
BigShr(x, s) ==
  IF s >= 16
    THEN (IF Len(x) <= 1 THEN <<0>> ELSE BigShr(Tail(x), s - 16))
    ELSE BigTrim(BigShrBits(x, s))

RECURSIVE BigInc(_)
BigInc(x) ==
  IF x = << >> THEN <<1>>
  ELSE IF x[1] + 1 < LimbBase THEN <<x[1] + 1>> \o Tail(x)
       ELSE <<0>> \o BigInc(Tail(x))

RECURSIVE BigToInt(_)
BigToInt(x) == IF x = << >> THEN 0 ELSE x[1] + LimbBase * BigToInt(Tail(x))

\* the exact value n * 2^e rounded to a 53-bit significand, ties to even
\* (the products of calculateXPAmount drop fewer than 16 bits)
Round53(n, e) ==
  LET s == BigBitLen(n) - 53
  IN  IF s <= 0 THEN [m |-> n, e |-> e]
      ELSE LET q    == BigShr(n, s)
               rem  == n[1] % Pow2(s)
               half == Pow2(s - 1)
               up   == rem > half \/ (rem = half /\ q[1] % 2 = 1)
           IN  [m |-> IF up THEN BigInc(q) ELSE q, e |-> e + s]

\* d * (k * 2^ke) for a small integer k
DoubleMul(d, k, ke) == Round53(BigMulSmall(d.m, k), d.e + ke)

\* Math.floor of a number below 2^31
DoubleFloor(d) == IF d.e >= 0 THEN BigToInt(d.m) * Pow2(d.e) ELSE BigToInt(BigShr(d.m, 0 - d.e))

\* the literals 1.2 = 0x3FF3333333333333 and 1.1 = 0x3FF199999999999A
Double_1_2 == [m |-> <<13107, 13107, 13107, 19>>, e |-> 0 - 52]

Double_1_1 == [m |-> <<39322, 39321, 39321, 17>>, e |-> 0 - 52]

(***************************************************************************)
(* getEventMultiplier: 1.5 (= 3 * 2^-1) on Sunday (0) and Saturday (6),    *)
(* 1.0 otherwise.                                                          *)
(***************************************************************************)
getEventMultiplier(dayOfWeek) ==
  IF dayOfWeek = 0 \/ dayOfWeek = 6 THEN [k |-> 3, ke |-> 0 - 1] ELSE [k |-> 1, ke |-> 0]

(***************************************************************************)
(* calculateXPAmount: amount = baseAmount; amount *= 1.2 (streak >= 7) or  *)
(* amount *= 1.1 (streak >= 3); amount *= eventMultiplier;                 *)
(* return Math.floor(amount).                                              *)
(***************************************************************************)
\* mutant: the 1.2 multiplier only above a streak of 7
calculateXPAmount_StreakOver7(baseAmount, streak, dayOfWeek) ==
  LET amount0 == [m |-> <<baseAmount>>, e |-> 0]
      amount1 == IF streak > 7 THEN DoubleMul(Double_1_2, baseAmount, 0)
                 ELSE IF streak >= 3 THEN DoubleMul(Double_1_1, baseAmount, 0)
                 ELSE amount0
      ev      == getEventMultiplier(dayOfWeek)
  IN  DoubleFloor(DoubleMul(amount1, ev.k, ev.ke))

calculateXPAmount(baseAmount, streak, dayOfWeek) ==
  LET amount0 == [m |-> <<baseAmount>>, e |-> 0]
      amount1 == IF streak >= 7 THEN DoubleMul(Double_1_2, baseAmount, 0)
                 ELSE IF streak >= 3 THEN DoubleMul(Double_1_1, baseAmount, 0)
                 ELSE amount0
      ev      == getEventMultiplier(dayOfWeek)
  IN  DoubleFloor(DoubleMul(amount1, ev.k, ev.ke))


(***************************************************************************)
(* Clock.  now is the wall clock in seconds; the server runs in UTC and    *)
(* second 0 is Thursday 1970-01-01 00:00.                                  *)
(***************************************************************************)
SecondsPerDay == 24 * 3600

SecondsPerWeek == 7 * SecondsPerDay

\* Thursday noon, and the later clock readings of a run: 10 s on (inside a
\* cooldown set at noon) and 70 s on (past a 60 s cooldown set before)
StartTime == 12 * 3600

ClockReadings == {StartTime, StartTime + 10, StartTime + 70}

Day(t) == t \div SecondsPerDay

\* new Date().getDay(): 0 = Sunday .. 6 = Saturday
getDay(t) == (4 + Day(t)) % 7

\* new Date().getFullYear(), for the years 1970 and 1971 (365 days each)
getFullYear(t) == IF Day(t) < 365 THEN 1970 ELSE 1971

\* new Date(year, 0, 1), in seconds
YearStart(y) == IF y = 1970 THEN 0 ELSE 365 * SecondsPerDay

\* x / y rounded up (Math.ceil of the quotient)
CeilDiv(x, y) == (x + y - 1) \div y

\* XPService.getCurrentWeekKey: `${year}-W${week}` with
\* week = Math.ceil((now - Jan 1) / 604800000), as <<year, week>>
getCurrentWeekKey(t) ==
  <<getFullYear(t), CeilDiv(t - YearStart(getFullYear(t)), SecondsPerWeek)>>

\* now.getMonth() + 1
MonthStarts == <<0, 31, 59, 90, 120, 151, 181, 212, 243, 273, 304, 334>>

getMonth1(t) ==
  LET doy == Day(t - YearStart(getFullYear(t)))
  IN  Cardinality({m \in 1..12 : MonthStarts[m] <= doy})

\* the decimal digits of a number below 100, and the same padded to two
Digits(n) == IF n < 10 THEN <<n>> ELSE <<n \div 10, n % 10>>

padStart2(n) == IF n < 10 THEN <<0, n>> ELSE Digits(n)

\* `${year}-${String(month).padStart(2, '0')}`, as <<year, digits of the month>>
getCurrentMonthKey(t) == <<getFullYear(t), padStart2(getMonth1(t))>>

(***************************************************************************)
(* State.                                                                  *)
(***************************************************************************)
VARIABLES
  now,          \* wall clock
  user_stats,   \* PostgreSQL user_stats: user -> row or NoRow (committed)
  xp_logs,      \* PostgreSQL xp_logs: committed rows in insertion order
  achievements, \* PostgreSQL achievements: rows, UNIQUE(user_id, achievement_type)
  minted,       \* StarknetService.mintAchievementNFT calls made
  cooldowns,    \* Redis cooldown:<user>:<action> keys: key -> expiry time
  leaderboard,  \* Redis sorted sets: entries [key, member, score]
  xp_intents,   \* Redis list xp_intents, head (lpush side) first
  wsOut,        \* WebSocketService.sendToUser calls made
  pc,           \* per in-flight call: the await it is suspended at
  loc,          \* per in-flight call: its local variables
  calls,        \* history: one record per awardXP call started
  total0,       \* history: the xp_total each user had at construction
  effects,      \* history: <<call, kind>> of every effect visible outside the call
  faults,       \* number of store failures injected so far
  fnIn,         \* input of the pure function under check
  fnOut,        \* its result
  drains,       \* processPendingXPIntents executions: their await and local intents
  queued,       \* history: every intent pushed onto xp_intents
  confirmed,    \* history: the intents of batches batchUpdateXP resolved for
  drainSched,   \* scheduling: the drain that popped last and the switches so far
  user_xp,      \* XPSystem contract storage: user -> XP
  user_level,   \* XPSystem contract storage: user -> level
  is_paused,    \* XPSystem contract storage: pause flag
  ledgerLog,    \* history: the batches batch_award_xp has processed
  user_action_cooldowns, \* XPSystem contract storage: (user, action) -> timestamp
  action_multipliers,    \* XPSystem contract storage: action -> multiplier
  backend_address,       \* XPSystem contract storage: the authorized backend
  block_timestamp,       \* get_block_timestamp()
  xpEvents,     \* the XPAwarded events, each with the function and block time
  lastTx,       \* history: the last transaction and the storage it found
  users,        \* PostgreSQL users: the ids that have a row
  awards,       \* per user: the award whose updateLeaderboard is in flight
  cache,        \* Redis leaderboard cache entries of LeaderboardService
  listing,      \* the result of the last getLeaderboard call
  boardOps,     \* number of ranking operations started so far
  scoreCalls,   \* LeaderboardService.updateUserScore calls in flight
  updateQueue,  \* LeaderboardService.updateQueue: type -> users queued
  snapshots,    \* PostgreSQL leaderboard_snapshots rows
  rollover,     \* the resetWeeklyLeaderboard execution in flight
  rankLog,      \* history: one record per updateLeaderboard call completed
  lastWeekly,   \* history: key and time of the last weekly score written
  rolledAt,     \* history: the time the last resetWeeklyLeaderboard ended
  rankOps,      \* number of updateUserScore and reset calls started so far
  sockets,      \* WebSocket connections: readyState and userId of each
  clients,      \* WebSocketService.clients: Map userId -> Set of connections
  subscriptions, \* Redis sets subscriptions:<userId>
  lbEvent,      \* the handleLeaderboardUpdate execution in flight
  wsSent,       \* per connection: the messages ws.send was called with
  wanted,       \* history: the channels each connection subscribed to and kept
  lastSend,     \* history: the sockets as the last sendToUser call found them
  wsVersion,    \* history: number of connection and subscription changes so far
  wsOps,        \* number of websocket inputs so far
  isAlive,      \* ws.isAlive of each connection
  pinged,       \* per connection: a ping of the heartbeat is unanswered
  killedAt,     \* history: the number of messages sent when the heartbeat terminated it
  answered,     \* history: the pongs each connection has sent
  beats,        \* number of heartbeat ticks so far
  status,       \* WebSocketProvider._status
  wsChannel,    \* WebSocketProvider._channel and the state of its socket
  reconnectAttempts, \* WebSocketProvider._reconnectAttempts
  reconnectTimer,    \* WebSocketProvider._reconnectTimer is pending
  connectPc,    \* the await connect() is suspended at
  doneDue,      \* the stream that reported an error has yet to report done
  failedRun,    \* history: reconnection attempts since a connection was last established
  tries,        \* number of times the reconnect timer has fired
  tradeStatus,  \* PostgreSQL trades: the committed status of the mock position
  wins_count,   \* PostgreSQL user_stats.wins_count of the position's owner
  rowLock,      \* the closeMockPosition call holding the lock of the trades row
  closeCalls,   \* closeMockPosition calls by reason: await, pnl and outcome
  closes,       \* history: committed updates of the position to closed
  rewardCalls,  \* history: awardMockXP calls for the closing
  notifications \* history: the reasons notifyPositionClosed was called with

storeVars == <<user_stats, xp_logs, achievements, minted, cooldowns, leaderboard,
               xp_intents, wsOut>>

\* the background drain of xp_intents
syncVars == <<drains, queued, confirmed, drainSched>>

\* the state of the other services, which no step of awardXP changes
\* the XPSystem contract
ledgerVars == <<user_xp, user_level, is_paused, ledgerLog, user_action_cooldowns,
                action_multipliers, backend_address, block_timestamp, xpEvents, lastTx>>

\* the ranking queries
boardVars == <<users, awards, cache, listing, boardOps>>

\* LeaderboardService's score updates and weekly reset
rankVars == <<scoreCalls, updateQueue, snapshots, rollover, rankLog, lastWeekly,
              rolledAt, rankOps>>

\* the services added after the ranking queries
\* WebSocketService
\* the heartbeat of WebSocketService
beatVars == <<pinged, killedAt, answered, beats>>

\* the client's WebSocketProvider
reconnVars == <<status, wsChannel, reconnectAttempts, reconnectTimer, connectPc, doneDue,
                failedRun, tries>>

\* MockTradingService
mockVars == <<tradeStatus, wins_count, rowLock, closeCalls, closes, rewardCalls,
              notifications>>

afterBeat == <<reconnVars, mockVars>>

\* the services modelled after WebSocketService
lateVars == <<beatVars, afterBeat>>

wsVars == <<sockets, clients, subscriptions, lbEvent, wsSent, wanted, lastSend, wsVersion,
            wsOps, isAlive, lateVars>>

extraVars == <<rankVars, wsVars>>

otherVars == <<syncVars, ledgerVars, boardVars, extraVars>>

\* what no step of awardXP changes
fixedVars == <<fnIn, fnOut, total0, otherVars>>

vars == <<now, user_stats, xp_logs, achievements, minted, cooldowns, leaderboard,
          xp_intents, wsOut, pc, loc, calls, total0, effects, faults, fnIn, fnOut,
          otherVars>>

NoRow == [exists |-> FALSE]

StatsRow(xp, lvl, streak) ==
  [exists |-> TRUE, xp_total |-> xp, level |-> lvl, current_streak |-> streak]

NoLoc == [call |-> 0]

NoKey == 0 - 1

\* the processPendingXPIntents executions in flight at once: nothing keeps
\* a push from starting one while another is running
Drains == {1, 2}

\* the number of times the drain that pops changes while both are popping
MaxSwitches == 1

NoSched == [last |-> 0, switches |-> 0]

\* a processPendingXPIntents execution that is not running
NoDrain == [pc |-> "idle", intents |-> << >>]

SyncAtRest ==
  /\ drains = [d \in Drains |-> NoDrain]
  /\ queued = {}
  /\ confirmed = {}
  /\ drainSched = NoSched

\* the accounts the contract is called for
Addresses == {1, 2}

\* the action types the contract is called with; 'bonus' is one the
\* constructor sets no multiplier for
LedgerActions == {"first_trade", "trade_executed", "profitable_trade", "daily_login",
                  "referral", "bonus"}

\* constructor, lines 126-131; a storage map reads 0 where nothing was written
DefaultMultiplier(action_type) ==
  IF action_type = "referral" THEN 2
  ELSE IF action_type = "bonus" THEN 0
  ELSE 1

NoTx == [n |-> 0, everPaused |-> FALSE]

\* the contract as its constructor leaves it, deployed at block time t
Deployed(t) ==
  /\ user_xp = [u \in Addresses |-> 0]
  /\ user_level = [u \in Addresses |-> 0]
  /\ is_paused = FALSE
  /\ ledgerLog = << >>
  /\ user_action_cooldowns = [k \in Addresses \X LedgerActions |-> 0]
  /\ action_multipliers = [a \in LedgerActions |-> DefaultMultiplier(a)]
  /\ backend_address = "backend"
  /\ block_timestamp = t
  /\ xpEvents = << >>
  /\ lastTx = NoTx

LedgerAtRest == Deployed(0)

\* no getLeaderboard call made yet
NoListing == [impl |-> "none"]

BoardAtRest ==
  /\ users = {}
  /\ awards = << >>
  /\ cache = {}
  /\ listing = NoListing
  /\ boardOps = 0

\* the updateUserScore calls in flight at once
Scorers == {1, 2}

NoScoreCall == [pc |-> "idle"]

NoRollover == [pc |-> "idle"]

\* no weekly score written yet
NeverWritten == [key |-> << >>, at |-> NoKey]

RankAtRest ==
  /\ scoreCalls = [p \in Scorers |-> NoScoreCall]
  /\ updateQueue = {}
  /\ snapshots = {}
  /\ rollover = NoRollover
  /\ rankLog = {}
  /\ lastWeekly = NeverWritten
  /\ rolledAt = NoKey
  /\ rankOps = 0

\* the connections of a run, each used once
Conns == {1, 2, 3}

WsUsers == {1, 2}

\* a connection the server has not seen yet; userId 0 stands for undefined;
\* token is the token the connection presented
NoSocket == [readyState |-> "NONE", userId |-> 0, token |-> 0]

NoEvent == [pc |-> "idle"]

NoSend == [call |-> 0]

\* a connection the heartbeat has not terminated
NotKilled == 0 - 1

BeatAtRest ==
  /\ pinged = [c \in Conns |-> FALSE]
  /\ killedAt = [c \in Conns |-> NotKilled]
  /\ answered = [c \in Conns |-> 0]
  /\ beats = 0

\* the fields of a WebSocketProvider just constructed
ReconnAtRest ==
  /\ status = "disconnected"
  /\ wsChannel = "null"
  /\ reconnectAttempts = 0
  /\ reconnectTimer = FALSE
  /\ connectPc = "idle"
  /\ doneDue = FALSE
  /\ failedRun = 0
  /\ tries = 0

\* the three callers of closeMockPosition for one position
Closers == {"manual", "auto_timeout", "auto_limit"}

NoClose == [pc |-> "idle", pnl |-> 0, result |-> ""]

\* one open mock position of a user without wins
MockAtRest ==
  /\ tradeStatus = "open"
  /\ wins_count = 0
  /\ rowLock = "none"
  /\ closeCalls = [r \in Closers |-> NoClose]
  /\ closes = 0
  /\ rewardCalls = 0
  /\ notifications = << >>

LateAtRest == BeatAtRest /\ ReconnAtRest /\ MockAtRest

WsAtRest ==
  /\ sockets = [c \in Conns |-> NoSocket]
  /\ clients = << >>
  /\ subscriptions = [u \in WsUsers |-> {}]
  /\ lbEvent = NoEvent
  /\ wsSent = [c \in Conns |-> << >>]
  /\ wanted = [c \in Conns |-> {}]
  /\ lastSend = NoSend
  /\ wsVersion = 0
  /\ wsOps = 0
  /\ isAlive = [c \in Conns |-> "undefined"]
  /\ LateAtRest

ExtraAtRest == RankAtRest /\ WsAtRest

\* the other services before anything has called them
OthersAtRest == SyncAtRest /\ LedgerAtRest /\ BoardAtRest /\ ExtraAtRest

\* awards committed earlier on the same day, before the service was constructed:
\* on a 7-day streak they add up to 990 XP (level 4, 10 XP below level 5) and
\* leave one mock_trade of the daily cap of 10
Veteran == <<"streak_30", "first_trade", "profitable_trade",
             "loss_trade", "loss_trade", "loss_trade", "loss_trade",
             "mock_trade", "mock_trade", "mock_trade", "mock_trade", "mock_trade",
             "mock_trade", "mock_trade", "mock_trade", "mock_trade">>

\* what the user brings along: no user_stats row at all, the row of a new user
\* without a streak, or that of a veteran on a 7-day streak
Profiles == {[row |-> FALSE, history |-> << >>, streak |-> 0],
             [row |-> TRUE, history |-> << >>, streak |-> 0],
             [row |-> TRUE, history |-> Veteran, streak |-> 7]}

PriorAmount(a, s) == calculateXPAmount(xpActions[a].baseAmount, s, getDay(StartTime))

RECURSIVE PriorTotal(_, _)
PriorTotal(h, s) == IF h = << >> THEN 0 ELSE PriorAmount(h[1], s) + PriorTotal(Tail(h), s)

\* the action ids callers pass in: one with a cooldown, one with a daily cap,
\* one that is not in the catalog
ActionInputs == {"trade_executed", "mock_trade", "no_such_action"}

(***************************************************************************)
(* Init: the service is constructed over stores that outlive it.  A user   *)
(* may have no user_stats row (no code of the service inserts one), the    *)
(* row of the column defaults (xp_total 0, level 1), or the state that the *)
(* sequential, successful awards of a prior history leave behind: their    *)
(* log rows, total, level, ranking scores and queued intents (none of them *)
(* has a cooldown or reaches level 5).                                     *)
(***************************************************************************)
InitStores(pr) ==
  LET h == pr.history
      s == pr.streak
  IN
  /\ user_stats = [u \in Users |->
                     IF pr.row
                       THEN StatsRow(PriorTotal(h, s), calculateLevel(PriorTotal(h, s)), s)
                       ELSE NoRow]
  /\ xp_logs = [i \in 1..Len(h) |->
                  [user_id |-> 1, action_type |-> h[i], xp_amount |-> PriorAmount(h[i], s),
                   created_at |-> Day(StartTime)]]
  /\ achievements = {}
  /\ minted = << >>
  /\ cooldowns = [k \in Users \X ActionTypes |-> NoKey]
  /\ leaderboard = IF h = << >> THEN {}
                   ELSE {[key |-> k, member |-> 1, score |-> PriorTotal(h, s)] :
                           k \in {<<"global", 0>>,
                                  <<"weekly", getCurrentWeekKey(StartTime)>>,
                                  <<"monthly", getCurrentMonthKey(StartTime)>>}}
  /\ xp_intents = [i \in 1..Len(h) |->
                     [userId |-> 1, actionType |-> h[Len(h) + 1 - i],
                      amount |-> PriorAmount(h[Len(h) + 1 - i], s), timestamp |-> StartTime]]
  /\ wsOut = << >>
  /\ pc = [p \in Procs |-> "idle"]
  /\ loc = [p \in Procs |-> NoLoc]
  /\ calls = << >>
  /\ total0 = [u \in Users |-> IF pr.row THEN PriorTotal(h, s) ELSE 0]
  /\ effects = {}
  /\ faults = 0

Init ==
  /\ now = StartTime
  /\ \E pr \in Profiles : InitStores(pr)
  /\ OthersAtRest
  /\ fnIn = << >>
  /\ fnOut = << >>

(***************************************************************************)
(* Helpers of the awardXP steps.                                           *)
(***************************************************************************)
CallRec(u, a, res, why) ==
  [user |-> u, action |-> a, start |-> now, result |-> res, reason |-> why,
   committed |-> FALSE, amount |-> 0, hadProfile |-> user_stats[u].exists]

\* the call of p returns (or throws) to its caller
Finish(p, res, why) ==
  /\ calls' = [calls EXCEPT ![loc[p].call].result = res, ![loc[p].call].reason = why]
  /\ pc' = [pc EXCEPT ![p] = "idle"]
  /\ loc' = [loc EXCEPT ![p] = NoLoc]

Goto(p, label) == pc' = [pc EXCEPT ![p] = label]

Fault == faults < MaxFaults /\ faults' = faults + 1

AfterCooldown(a) == IF xpActions[a].maxDaily # 0 THEN "getDailyActionCount" ELSE "begin"

\* redis.exists(key) = 1: the key was set and its TTL has not run out
KeyExists(k) == cooldowns[k] # NoKey /\ now < cooldowns[k]

\* SELECT COUNT(*) FROM xp_logs WHERE user_id, action_type, created_at >= CURRENT_DATE
DailyCount(u, a) ==
  Cardinality({i \in DOMAIN xp_logs :
                 /\ xp_logs[i].user_id = u
                 /\ xp_logs[i].action_type = a
                 /\ xp_logs[i].created_at >= Day(now)})

\* the row lock UPDATE user_stats takes until COMMIT or ROLLBACK
RowLockedByOther(p, u) ==
  \E q \in Procs \ {p} : loc[q].call # 0 /\ loc[q].userId = u /\ loc[q].txStats

AchievementFor(level) ==
  IF level = 5 THEN "basic_trader" ELSE IF level = 10 THEN "castle_lord" ELSE "none"

(***************************************************************************)
(* awardXP, lines 79-84: the action lookup.  An unknown action id returns  *)
(* false before the first await.                                           *)
(***************************************************************************)
AwardXPUnknown(p, u, a) ==
  /\ pc[p] = "idle"
  /\ a \notin ActionTypes
  /\ calls' = Append(calls, CallRec(u, a, "false", "invalid-action"))
  /\ UNCHANGED <<now, storeVars, pc, loc, effects, faults, fixedVars>>

AwardXP(p, u, a) ==
  /\ pc[p] = "idle"
  /\ a \in ActionTypes
  /\ calls' = Append(calls, CallRec(u, a, "pending", ""))
  /\ loc' = [loc EXCEPT ![p] =
               [call |-> Len(calls) + 1, userId |-> u, actionType |-> a,
                xpAmount |-> 0, xp_total |-> 0, level |-> 0, newLevel |-> 0,
                leveledUp |-> FALSE, logDay |-> 0,
                txLog |-> FALSE, txStats |-> FALSE, txLevel |-> FALSE]]
  /\ Goto(p, IF xpActions[a].cooldown # 0 THEN "checkCooldown" ELSE AfterCooldown(a))
  /\ UNCHANGED <<now, storeVars, effects, faults, fixedVars>>

(***************************************************************************)
(* Lines 86-93 and checkCooldown: reject while the cooldown key exists.    *)
(***************************************************************************)
\* mutant: a rejected call renews the cooldown key
CheckCooldown_Refresh(p) ==
  /\ pc[p] = "checkCooldown"
  /\ IF KeyExists(<<loc[p].userId, loc[p].actionType>>)
       THEN /\ Finish(p, "false", "cooldown")
            /\ cooldowns' = [cooldowns EXCEPT ![<<loc[p].userId, loc[p].actionType>>] =
                               now + xpActions[loc[p].actionType].cooldown]
       ELSE /\ Goto(p, AfterCooldown(loc[p].actionType))
            /\ UNCHANGED <<loc, calls, cooldowns>>
  /\ UNCHANGED <<now, user_stats, xp_logs, achievements, minted, leaderboard, xp_intents,
                 wsOut, effects, faults, fixedVars>>

CheckCooldown(p) ==
  /\ pc[p] = "checkCooldown"
  /\ IF KeyExists(<<loc[p].userId, loc[p].actionType>>)
       THEN Finish(p, "false", "cooldown")
       ELSE Goto(p, AfterCooldown(loc[p].actionType)) /\ UNCHANGED <<loc, calls>>
  /\ UNCHANGED <<now, storeVars, effects, faults, fixedVars>>

(***************************************************************************)
(* Lines 95-102 and getDailyActionCount: reject when today's committed     *)
(* rows of the action reach maxDaily.                                      *)
(***************************************************************************)
GetDailyActionCount(p) ==
  /\ pc[p] = "getDailyActionCount"
  /\ IF DailyCount(loc[p].userId, loc[p].actionType) >= xpActions[loc[p].actionType].maxDaily
       THEN Finish(p, "false", "daily-cap")
       ELSE Goto(p, "begin") /\ UNCHANGED <<loc, calls>>
  /\ UNCHANGED <<now, storeVars, effects, faults, fixedVars>>

\* mutant: the failure of the guard's store is noted and the call goes on
\* as if the guard had let it pass
GuardFail_FailOpen(p) ==
  /\ pc[p] \in {"checkCooldown", "getDailyActionCount"}
  /\ Fault
  /\ calls' = [calls EXCEPT ![loc[p].call].reason = "guard-error"]
  /\ Goto(p, "begin")
  /\ UNCHANGED <<now, storeVars, loc, effects, fixedVars>>

\* redis.exists or the COUNT query throws: both awaits are outside the try
\* block, the promise of awardXP rejects
GuardFail(p) ==
  /\ pc[p] \in {"checkCooldown", "getDailyActionCount"}
  /\ Fault
  /\ Finish(p, "threw", "guard-error")
  /\ UNCHANGED <<now, storeVars, effects, fixedVars>>

(***************************************************************************)
(* Lines 104-118: pool.connect(), BEGIN, calculateXPAmount (the streak is  *)
(* read through the pool, rows[0]?.current_streak || 0, the weekday from   *)
(* the clock) and INSERT INTO xp_logs, which stays pending until COMMIT.   *)
(* No other call can see any of the four awaits, so they are one step.     *)
(***************************************************************************)
Begin(p) ==
  /\ pc[p] = "begin"
  /\ LET u      == loc[p].userId
         streak == IF user_stats[u].exists THEN user_stats[u].current_streak ELSE 0
         amt    == calculateXPAmount(xpActions[loc[p].actionType].baseAmount,
                                     streak, getDay(now))
     IN  /\ loc' = [loc EXCEPT ![p].xpAmount = amt, ![p].txLog = TRUE,
                               ![p].logDay = Day(now)]
         /\ calls' = [calls EXCEPT ![loc[p].call].amount = amt]
  /\ Goto(p, "updateStats")
  /\ UNCHANGED <<now, storeVars, effects, faults, fixedVars>>

(***************************************************************************)
(* Lines 121-140: UPDATE user_stats SET xp_total = xp_total + $1 ...       *)
(* RETURNING xp_total, level.  The statement waits for the row lock and    *)
(* then works on the committed row.  Without a row, rows[0] is undefined   *)
(* and the destructuring throws into the catch block.  When the level of   *)
(* the new total is above the stored one, UPDATE user_stats SET level      *)
(* follows under the same lock; both stay pending until COMMIT.            *)
(***************************************************************************)
\* mutant: the level is recomputed from the total before the update
UpdateStats_StaleLevel(p) ==
  /\ pc[p] = "updateStats"
  /\ LET u == loc[p].userId
     IN  IF ~user_stats[u].exists
           THEN Goto(p, "catch") /\ UNCHANGED loc
           ELSE /\ ~RowLockedByOther(p, u)
                /\ LET total == user_stats[u].xp_total + loc[p].xpAmount
                       lvl   == user_stats[u].level
                       newL  == calculateLevel(user_stats[u].xp_total)
                   IN  /\ loc' = [loc EXCEPT ![p].xp_total = total, ![p].level = lvl,
                                             ![p].newLevel = newL, ![p].txStats = TRUE,
                                             ![p].txLevel = newL > lvl,
                                             ![p].leveledUp = newL > lvl]
                       /\ Goto(p, IF newL > lvl THEN "checkLevelAchievements" ELSE "commit")
  /\ UNCHANGED <<now, storeVars, calls, effects, faults, fixedVars>>

UpdateStats(p) ==
  /\ pc[p] = "updateStats"
  /\ LET u == loc[p].userId
     IN  IF ~user_stats[u].exists
           THEN Goto(p, "catch") /\ UNCHANGED loc
           ELSE /\ ~RowLockedByOther(p, u)
                /\ LET total == user_stats[u].xp_total + loc[p].xpAmount
                       lvl   == user_stats[u].level
                       newL  == calculateLevel(total)
                   IN  /\ loc' = [loc EXCEPT ![p].xp_total = total, ![p].level = lvl,
                                             ![p].newLevel = newL, ![p].txStats = TRUE,
                                             ![p].txLevel = newL > lvl,
                                             ![p].leveledUp = newL > lvl]
                       /\ Goto(p, IF newL > lvl THEN "checkLevelAchievements" ELSE "commit")
  /\ UNCHANGED <<now, storeVars, calls, effects, faults, fixedVars>>

(***************************************************************************)
(* Line 143, checkLevelAchievements and awardAchievement: at level 5 or 10 *)
(* insert the achievement through the pool (its own connection, committed  *)
(* at once, ON CONFLICT DO NOTHING), mint the NFT and notify the user.     *)
(***************************************************************************)
AchievementRow(p) ==
  [user_id |-> loc[p].userId, achievement_type |-> AchievementFor(loc[p].newLevel)]

CheckLevelAchievements(p) ==
  /\ pc[p] = "checkLevelAchievements"
  /\ IF AchievementFor(loc[p].newLevel) = "none"
       THEN UNCHANGED <<achievements, minted, wsOut, effects>>
       ELSE /\ achievements' = achievements \cup {AchievementRow(p)}
            /\ minted' = Append(minted, AchievementRow(p))
            /\ wsOut' = Append(wsOut, [to |-> loc[p].userId, type |-> "achievement_unlocked",
                                       data |-> AchievementRow(p).achievement_type])
            /\ effects' = effects \cup {<<loc[p].call, "achievement_row">>,
                                        <<loc[p].call, "mint">>,
                                        <<loc[p].call, "achievement_unlocked">>}
  /\ Goto(p, "commit")
  /\ UNCHANGED <<now, user_stats, xp_logs, cooldowns, leaderboard, xp_intents,
                 loc, calls, faults, fixedVars>>

\* awardAchievement catches its own errors: a failed insert skips the mint and
\* the notification, a failed mint skips the notification
AwardAchievementFail(p) ==
  /\ pc[p] = "checkLevelAchievements"
  /\ AchievementFor(loc[p].newLevel) # "none"
  /\ Fault
  /\ \/ UNCHANGED <<achievements, effects>>
     \/ /\ achievements' = achievements \cup {AchievementRow(p)}
        /\ effects' = effects \cup {<<loc[p].call, "achievement_row">>}
  /\ Goto(p, "commit")
  /\ UNCHANGED <<now, user_stats, xp_logs, minted, cooldowns, leaderboard, xp_intents,
                 wsOut, loc, calls, fixedVars>>

(***************************************************************************)
(* Line 146: COMMIT makes the pending log row, total and level durable and *)
(* releases the row lock.                                                  *)
(***************************************************************************)
Commit(p) ==
  /\ pc[p] = "commit"
  /\ LET u == loc[p].userId
     IN  /\ xp_logs' = IF loc[p].txLog
                         THEN Append(xp_logs, [user_id |-> u,
                                               action_type |-> loc[p].actionType,
                                               xp_amount |-> loc[p].xpAmount,
                                               created_at |-> loc[p].logDay])
                         ELSE xp_logs
         /\ user_stats' = [user_stats EXCEPT
                             ![u].xp_total = IF loc[p].txStats THEN loc[p].xp_total ELSE @,
                             ![u].level = IF loc[p].txLevel THEN loc[p].newLevel ELSE @]
  /\ loc' = [loc EXCEPT ![p].txLog = FALSE, ![p].txStats = FALSE, ![p].txLevel = FALSE]
  /\ calls' = [calls EXCEPT ![loc[p].call].committed = TRUE]
  /\ effects' = effects \cup {<<loc[p].call, "xp_logs">>, <<loc[p].call, "user_stats">>}
  /\ Goto(p, "updateLeaderboard")
  /\ UNCHANGED <<now, achievements, minted, cooldowns, leaderboard, xp_intents, wsOut,
                 faults, fixedVars>>

\* a statement of the transaction (BEGIN .. COMMIT) throws: control goes to
\* the catch block
TxFail(p) ==
  /\ pc[p] \in {"begin", "updateStats", "checkLevelAchievements", "commit"}
  /\ Fault
  /\ Goto(p, "catch")
  /\ UNCHANGED <<now, storeVars, loc, calls, effects, fixedVars>>

(***************************************************************************)
(* Line 149 and updateLeaderboard: redis.zadd of the total the UPDATE      *)
(* returned into the global, the current weekly and the current monthly    *)
(* sorted set.  The three zadd of one call are taken as one step.          *)
(***************************************************************************)
UpdateLeaderboard(p) ==
  /\ pc[p] = "updateLeaderboard"
  /\ leaderboard' =
       LET u  == loc[p].userId
           ks == {<<"global", 0>>, <<"weekly", getCurrentWeekKey(now)>>,
                  <<"monthly", getCurrentMonthKey(now)>>}
       IN  {e \in leaderboard : ~(e.key \in ks /\ e.member = u)}
             \cup {[key |-> k, member |-> u, score |-> loc[p].xp_total] : k \in ks}
  /\ effects' = effects \cup {<<loc[p].call, "zadd">>}
  /\ Goto(p, "queueXPIntent")
  /\ UNCHANGED <<now, user_stats, xp_logs, achievements, minted, cooldowns, xp_intents,
                 wsOut, loc, calls, faults, fixedVars>>

(***************************************************************************)
(* Line 152 and queueXPIntent: lpush the intent.  The list stays below the *)
(* batch threshold of 100 here, so no drain is started.                    *)
(***************************************************************************)
QueueXPIntent(p) ==
  /\ pc[p] = "queueXPIntent"
  /\ xp_intents' = <<[userId |-> loc[p].userId, actionType |-> loc[p].actionType,
                      amount |-> loc[p].xpAmount, timestamp |-> now]>> \o xp_intents
  /\ effects' = effects \cup {<<loc[p].call, "lpush">>}
  /\ Goto(p, "sendToUser")
  /\ UNCHANGED <<now, user_stats, xp_logs, achievements, minted, cooldowns, leaderboard,
                 wsOut, loc, calls, faults, fixedVars>>

(***************************************************************************)
(* Lines 155-171: the xp_gained push (sendToUser catches its own errors),  *)
(* then return true, through setCooldown when the action has a cooldown.   *)
(***************************************************************************)
SendToUser(p) ==
  /\ pc[p] = "sendToUser"
  /\ wsOut' = Append(wsOut, [to |-> loc[p].userId, type |-> "xp_gained",
                             data |-> [actionType |-> loc[p].actionType,
                                       xpAmount |-> loc[p].xpAmount,
                                       totalXP |-> loc[p].xp_total,
                                       level |-> loc[p].newLevel,
                                       leveledUp |-> loc[p].leveledUp]])
  /\ effects' = effects \cup {<<loc[p].call, "xp_gained">>}
  /\ IF xpActions[loc[p].actionType].cooldown # 0
       THEN Goto(p, "setCooldown") /\ UNCHANGED <<loc, calls>>
       ELSE Finish(p, "true", "")
  /\ UNCHANGED <<now, user_stats, xp_logs, achievements, minted, cooldowns, leaderboard,
                 xp_intents, faults, fixedVars>>

\* redis.setex(key, cooldownSeconds, '1')
SetCooldown(p) ==
  /\ pc[p] = "setCooldown"
  /\ cooldowns' = [cooldowns EXCEPT ![<<loc[p].userId, loc[p].actionType>>] =
                     now + xpActions[loc[p].actionType].cooldown]
  /\ effects' = effects \cup {<<loc[p].call, "setex">>}
  /\ Finish(p, "true", "")
  /\ UNCHANGED <<now, user_stats, xp_logs, achievements, minted, leaderboard, xp_intents,
                 wsOut, faults, fixedVars>>

\* a Redis call after COMMIT throws: it is still inside the try block
PostCommitFail(p) ==
  /\ pc[p] \in {"updateLeaderboard", "queueXPIntent", "setCooldown"}
  /\ Fault
  /\ Goto(p, "catch")
  /\ UNCHANGED <<now, storeVars, loc, calls, effects, fixedVars>>

(***************************************************************************)
(* Lines 173-179: catch: ROLLBACK (drops what is pending, a no-op after    *)
(* COMMIT), log, return false.                                             *)
(***************************************************************************)
Catch(p) ==
  /\ pc[p] = "catch"
  /\ Finish(p, "false", IF calls[loc[p].call].committed
                          THEN "downstream-failed" ELSE "persistence-failed")
  /\ UNCHANGED <<now, storeVars, effects, faults, fixedVars>>

(***************************************************************************)
(* Time passes.  A call takes milliseconds and the clock readings are      *)
(* seconds apart: the clock moves on between calls, and calls that overlap *)
(* run at one reading.                                                     *)
(***************************************************************************)
Tick(t) ==
  /\ t > now
  /\ \A p \in Procs : pc[p] = "idle"
  /\ now' = t
  /\ UNCHANGED <<storeVars, pc, loc, calls, effects, faults, fixedVars>>

(***************************************************************************)
(* Specifications.                                                         *)
(***************************************************************************)
Step(p) ==
  \/ CheckCooldown(p)
  \/ GetDailyActionCount(p)
  \/ Begin(p)
  \/ UpdateStats(p)
  \/ CheckLevelAchievements(p)
  \/ Commit(p)
  \/ UpdateLeaderboard(p)
  \/ QueueXPIntent(p)
  \/ SendToUser(p)
  \/ SetCooldown(p)
  \/ Catch(p)

Failure(p) ==
  \/ GuardFail(p)
  \/ TxFail(p)
  \/ AwardAchievementFail(p)
  \/ PostCommitFail(p)

\* a new call takes the lowest free slot
Request(p) ==
  /\ Len(calls) < MaxCalls
  /\ \A q \in Procs : q < p => pc[q] # "idle"
  /\ \E u \in Users, a \in ActionInputs : AwardXPUnknown(p, u, a) \/ AwardXP(p, u, a)

Next ==
  \/ \E p \in Procs : Request(p) \/ Step(p) \/ Failure(p)
  \/ \E t \in ClockReadings : Tick(t)

Spec == Init /\ [][Next]_vars

(***************************************************************************)
(* The pure functions on their own: the input is drawn at the start, one   *)
(* step applies the function.                                              *)
(***************************************************************************)
Quiet ==
  /\ now = StartTime
  /\ InitStores([row |-> TRUE, history |-> << >>, streak |-> 0])
  /\ OthersAtRest

InitAmount ==
  /\ Quiet
  /\ fnIn \in (1..MaxBase) \X (0..MaxStreak) \X (0..6)
  /\ fnOut = << >>

ApplyCalculateXPAmount ==
  /\ fnOut = << >>
  /\ fnOut' = <<calculateXPAmount(fnIn[1], fnIn[2], fnIn[3])>>
  /\ UNCHANGED <<now, storeVars, pc, loc, calls, total0, effects, faults, fnIn, otherVars>>

SpecAmount == InitAmount /\ [][ApplyCalculateXPAmount]_vars

\* calculateLevel of a total and of the next total
InitLevel ==
  /\ Quiet
  /\ fnIn \in 0..MaxTotalXP
  /\ fnOut = << >>

ApplyCalculateLevel ==
  /\ fnOut = << >>
  /\ fnOut' = <<calculateLevel(fnIn), calculateLevel(fnIn + 1)>>
  /\ UNCHANGED <<now, storeVars, pc, loc, calls, total0, effects, faults, fnIn, otherVars>>

SpecLevel == InitLevel /\ [][ApplyCalculateLevel]_vars

(***************************************************************************)
(* The ledger sync queue: queueXPIntent and processPendingXPIntents.  An   *)
(* award that has committed pushes its intent; the push that finds 100 or  *)
(* more entries starts a drain, which nobody awaits.  Nothing else starts  *)
(* a drain: the service has no timer.  The queue may hold the intents of   *)
(* earlier awards at the start.                                            *)
(***************************************************************************)
\* queueLength >= 100
BatchThreshold == 100

\* for (let i = 0; i < 100; i++)
BatchSize == 100

\* awards that arrive during a run
MaxAwards == 3

SyncActions == {"trade_executed", "mock_trade"}

Intent(u, a, n) ==
  [userId |-> u, actionType |-> a, amount |-> xpActions[a].baseAmount, timestamp |-> n]

\* the queue n earlier awards left behind, newest at the head
Backlog(n) == [i \in 1..n |-> Intent(1, "loss_trade", n + 1 - i)]

Range(q) == {q[i] : i \in DOMAIN q}

InitSync ==
  /\ now = StartTime
  /\ user_stats = [u \in Users |-> StatsRow(0, 1, 0)]
  /\ xp_logs = << >>
  /\ achievements = {}
  /\ minted = << >>
  /\ cooldowns = [k \in Users \X ActionTypes |-> NoKey]
  /\ leaderboard = {}
  /\ \E n \in {0, BatchThreshold - 2} : xp_intents = Backlog(n)
  /\ wsOut = << >>
  /\ pc = [p \in Procs |-> "idle"]
  /\ loc = [p \in Procs |-> NoLoc]
  /\ calls = << >>
  /\ total0 = [u \in Users |-> 0]
  /\ effects = {}
  /\ faults = 0
  /\ fnIn = << >>
  /\ fnOut = << >>
  /\ drains = [d \in Drains |-> NoDrain]
  /\ queued = Range(xp_intents)
  /\ confirmed = {}
  /\ drainSched = NoSched
  /\ LedgerAtRest
  /\ BoardAtRest
  /\ ExtraAtRest

\* everything the queue and its drain leave alone
syncFixed == <<now, user_stats, xp_logs, achievements, minted, cooldowns, leaderboard,
               wsOut, pc, loc, calls, total0, effects, faults, fnIn, fnOut, ledgerVars,
               boardVars, extraVars>>

\* the lowest drain slot that is free
FreeDrain(d) ==
  /\ drains[d].pc = "idle"
  /\ \A e \in Drains : e < d => drains[e].pc # "idle"

\* the intents of the awards that arrived during the run
Arrived == {i \in queued : i.actionType \in SyncActions}

(***************************************************************************)
(* queueXPIntent for a committed award: lpush, llen, and the drain started *)
(* when the length has reached the threshold.                              *)
(***************************************************************************)
QueueXPIntentIn(ds, u, a) ==
  /\ Cardinality(Arrived) < MaxAwards
  /\ LET intent == Intent(u, a, Cardinality(queued) + 1)
         q      == <<intent>> \o xp_intents
     IN  /\ xp_intents' = q
         /\ queued' = queued \cup {intent}
         /\ IF Len(q) >= BatchThreshold
              THEN \E d \in ds :
                     /\ FreeDrain(d)
                     /\ drains' = [drains EXCEPT ![d] = [pc |-> "rpop", intents |-> << >>]]
              ELSE UNCHANGED drains
  /\ UNCHANGED <<syncFixed, confirmed, drainSched>>

(***************************************************************************)
(* Lines 313-319: one pass of the loop.  rpop takes the oldest intent off  *)
(* the tail of the list and the drain keeps it in its local array; an      *)
(* empty list ends the loop, and so does the hundredth intent.  A drain    *)
(* that took nothing returns.                                              *)
(***************************************************************************)
\* drain d takes over from another drain that is still popping
Switches(d) ==
  /\ drainSched.last \notin {0, d}
  /\ drains[drainSched.last].pc = "rpop"

Rpop(d) ==
  /\ drains[d].pc = "rpop"
  /\ IF xp_intents = << >>
       THEN /\ drains' = [drains EXCEPT ![d] =
                            IF drains[d].intents = << >> THEN NoDrain
                            ELSE [@ EXCEPT !.pc = "batchUpdateXP"]]
            /\ UNCHANGED <<xp_intents, drainSched>>
       ELSE LET got == Append(drains[d].intents, xp_intents[Len(xp_intents)])
            IN  /\ Switches(d) => drainSched.switches < MaxSwitches
                /\ drainSched' = [last |-> d,
                                  switches |-> IF Switches(d) THEN drainSched.switches + 1
                                               ELSE drainSched.switches]
                /\ xp_intents' = SubSeq(xp_intents, 1, Len(xp_intents) - 1)
                /\ drains' = [drains EXCEPT ![d] =
                               [pc |-> IF Len(got) = BatchSize THEN "batchUpdateXP"
                                       ELSE "rpop",
                                intents |-> got]]
  /\ UNCHANGED <<syncFixed, queued, confirmed>>

(***************************************************************************)
(* Line 322: batchUpdateXP resolves, the ledger has the batch.             *)
(***************************************************************************)
BatchUpdateXP(d) ==
  /\ drains[d].pc = "batchUpdateXP"
  /\ confirmed' = confirmed \cup Range(drains[d].intents)
  /\ drains' = [drains EXCEPT ![d] = NoDrain]
  /\ UNCHANGED <<syncFixed, xp_intents, queued, drainSched>>

(***************************************************************************)
(* Lines 322-326: batchUpdateXP rejects.  The catch block logs the error;  *)
(* the intents of the batch exist only in the local array, which is gone   *)
(* when the function returns.                                              *)
(***************************************************************************)
BatchUpdateXPFail(d) ==
  /\ drains[d].pc = "batchUpdateXP"
  /\ drains' = [drains EXCEPT ![d] = NoDrain]
  /\ UNCHANGED <<syncFixed, xp_intents, queued, confirmed, drainSched>>

(***************************************************************************)
(* Lines 314, 324-326: rpop rejects (Redis is down): the same catch block. *)
(***************************************************************************)
RpopFail(d) ==
  /\ drains[d].pc = "rpop"
  /\ drains' = [drains EXCEPT ![d] = NoDrain]
  /\ UNCHANGED <<syncFixed, xp_intents, queued, confirmed, drainSched>>

\* the pushes of awards that do not arrive while a drain is running
QueueXPIntentSync(u, a) == QueueXPIntentIn({1}, u, a)

NextSync ==
  \/ \E u \in Users, a \in SyncActions : QueueXPIntentSync(u, a)
  \/ \E d \in Drains : Rpop(d) \/ BatchUpdateXP(d) \/ BatchUpdateXPFail(d) \/ RpopFail(d)

SpecSync == InitSync /\ [][NextSync]_vars

(***************************************************************************)
(* The same with a ledger that accepts every call and a Redis that never   *)
(* fails, and with every drain that was started running on to its end.     *)
(***************************************************************************)
NextSyncLive ==
  \/ \E u \in Users, a \in SyncActions : QueueXPIntentSync(u, a)
  \/ \E d \in Drains : Rpop(d) \/ BatchUpdateXP(d)

SpecSyncLive ==
  /\ InitSync
  /\ [][NextSyncLive]_vars
  /\ \A d \in Drains : WF_vars(Rpop(d)) /\ WF_vars(BatchUpdateXP(d))

(***************************************************************************)
(* Overlapping drains: awards keep arriving while a drain is popping, and  *)
(* a push that finds 100 or more entries starts a second drain.            *)
(***************************************************************************)
QueueXPIntentOverlap(u, a) == QueueXPIntentIn(Drains, u, a)

NextDrain ==
  \/ \E u \in Users, a \in SyncActions : QueueXPIntentOverlap(u, a)
  \/ \E d \in Drains : Rpop(d) \/ BatchUpdateXP(d)

SpecDrain == InitSync /\ [][NextDrain]_vars

(***************************************************************************)
(* The XPSystem contract (xp_system.cairo): batch_award_xp and the pause   *)
(* switch.  A call whose assert fails reverts and leaves the storage as it *)
(* was.  The XP values of the model stay far below 2^256.                  *)
(***************************************************************************)
\* calls of the contract in a run
MaxLedgerCalls == 3

Callers == {"admin", "backend", "other"}

\* constructor: level_thresholds.write(level, threshold)
level_thresholds == <<0, 100, 300, 600, 1000, 1600, 2500, 4000, 6000, 10000>>

PendingXPUpdate(user, amount, action_type, timestamp) ==
  [user |-> user, amount |-> amount, action_type |-> action_type,
   timestamp |-> timestamp]

\* the updates the backend has to submit
Updates ==
  {PendingXPUpdate(1, 50, "trade_executed", 1000),
   PendingXPUpdate(2, 100, "first_trade", 1001),
   PendingXPUpdate(1, 60, "profitable_trade", 1002)}

\* the batches: one update, or the first two together
Batches ==
  {<<a>> : a \in Updates}
    \cup {<<PendingXPUpdate(1, 50, "trade_executed", 1000),
            PendingXPUpdate(2, 100, "first_trade", 1001)>>}

\* _check_level_up: the loop from level 10 down
\* mutant: a threshold counts only once exceeded
RECURSIVE check_level_from_Exceeded(_, _, _)
check_level_from_Exceeded(level, new_level, total_xp) ==
  IF level = 0 THEN new_level
  ELSE IF total_xp > level_thresholds[level] /\ level > new_level THEN level
  ELSE check_level_from_Exceeded(level - 1, new_level, total_xp)

RECURSIVE check_level_from(_, _, _)
check_level_from(level, new_level, total_xp) ==
  IF level = 0 THEN new_level
  ELSE IF total_xp >= level_thresholds[level] /\ level > new_level THEN level
  ELSE check_level_from(level - 1, new_level, total_xp)

\* _check_level_up: the level stored afterwards
check_level_up(current_level, total_xp) ==
  LET new_level == check_level_from(10, current_level, total_xp)
  IN  IF new_level > current_level THEN new_level ELSE current_level

\* the loop of batch_award_xp from update number count on: the storage it leaves
RECURSIVE batch_loop(_, _, _, _)
batch_loop(updates, count, xp, level) ==
  IF count > Len(updates) THEN <<xp, level>>
  ELSE LET update == updates[count]
           new_xp == xp[update.user] + update.amount
       IN  batch_loop(updates, count + 1,
                      [xp EXCEPT ![update.user] = new_xp],
                      [level EXCEPT ![update.user] = check_level_up(@, new_xp)])

ledgerFixed == <<now, storeVars, pc, loc, calls, total0, effects, faults, fnIn, fnOut,
                 syncVars, boardVars, extraVars>>

\* the contract storage a transaction finds
Storage ==
  [user_xp |-> user_xp, user_level |-> user_level, is_paused |-> is_paused,
   user_action_cooldowns |-> user_action_cooldowns,
   action_multipliers |-> action_multipliers, backend_address |-> backend_address]

\* a transaction is recorded; "" is no error
Transaction(fn, caller, args, error) ==
  /\ lastTx.n < MaxLedgerCalls
  /\ lastTx' = [n |-> lastTx.n + 1, fn |-> fn, caller |-> caller, args |-> args,
                error |-> error, before |-> Storage, at |-> block_timestamp,
                emitted |-> Len(xpEvents),
                everPaused |-> lastTx.everPaused \/ is_paused]

\* a failed assert: the transaction reverts and the storage stays as it was
Reverted ==
  UNCHANGED <<user_xp, user_level, is_paused, ledgerLog, user_action_cooldowns,
              action_multipliers, backend_address, xpEvents>>

\* the asserts of award_xp, lines 143-160, in their order
\* mutant: without the pause check
award_xp_error_NoPause(caller, user, action_type) ==
  LET last_action_time == user_action_cooldowns[<<user, action_type>>]
  IN  IF ~(caller = "admin" \/ caller = backend_address) THEN "Unauthorized caller"
      ELSE IF last_action_time > 0 /\ ~(block_timestamp >= last_action_time + 60)
        THEN "Action on cooldown"
      ELSE ""

award_xp_error(caller, user, action_type) ==
  LET last_action_time == user_action_cooldowns[<<user, action_type>>]
  IN  IF ~(caller = "admin" \/ caller = backend_address) THEN "Unauthorized caller"
      ELSE IF is_paused THEN "Contract is paused"
      ELSE IF last_action_time > 0 /\ ~(block_timestamp >= last_action_time + 60)
        THEN "Action on cooldown"
      ELSE ""

\* award_xp, lines 136-184
award_xp(caller, user, action_type, base_amount) ==
  LET error        == award_xp_error(caller, user, action_type)
      final_amount == base_amount * action_multipliers[action_type]
      new_xp       == user_xp[user] + final_amount
  IN  /\ Transaction("award_xp", caller,
                     [user |-> user, action_type |-> action_type,
                      base_amount |-> base_amount], error)
      /\ IF error # ""
           THEN Reverted
           ELSE /\ user_xp' = [user_xp EXCEPT ![user] = new_xp]
                /\ user_action_cooldowns' =
                     [user_action_cooldowns EXCEPT ![<<user, action_type>>] = block_timestamp]
                /\ user_level' = [user_level EXCEPT ![user] = check_level_up(@, new_xp)]
                /\ xpEvents' = Append(xpEvents, [user |-> user, amount |-> final_amount,
                                                 action_type |-> action_type,
                                                 by |-> "award_xp",
                                                 at |-> block_timestamp])
                /\ UNCHANGED <<is_paused, ledgerLog, action_multipliers, backend_address>>
      /\ UNCHANGED <<block_timestamp, ledgerFixed>>

\* the asserts of batch_award_xp, lines 191-192
\* mutant: the admin may batch as well
batch_award_xp_error_AdminToo(caller) ==
  IF caller # backend_address /\ caller # "admin" THEN "Unauthorized caller"
  ELSE IF is_paused THEN "Contract is paused"
  ELSE ""

batch_award_xp_error(caller) ==
  IF caller # backend_address THEN "Unauthorized caller"
  ELSE IF is_paused THEN "Contract is paused"
  ELSE ""

\* the XPAwarded events of a batch, one per update
BatchEvents(updates) ==
  [i \in DOMAIN updates |-> [user |-> updates[i].user, amount |-> updates[i].amount,
                              action_type |-> updates[i].action_type,
                              by |-> "batch_award_xp", at |-> block_timestamp]]

\* batch_award_xp, lines 186-228
batch_award_xp(caller, updates) ==
  LET error == batch_award_xp_error(caller)
      after == batch_loop(updates, 1, user_xp, user_level)
  IN  /\ Transaction("batch_award_xp", caller, updates, error)
      /\ IF error # ""
           THEN Reverted
           ELSE /\ user_xp' = after[1]
                /\ user_level' = after[2]
                /\ ledgerLog' = Append(ledgerLog, updates)
                /\ xpEvents' = xpEvents \o BatchEvents(updates)
                /\ UNCHANGED <<is_paused, user_action_cooldowns, action_multipliers,
                               backend_address>>
      /\ UNCHANGED <<block_timestamp, ledgerFixed>>

\* the assert of the admin functions, lines 247, 258, 268 and 281
admin_error(caller) == IF caller # "admin" THEN "Unauthorized caller" ELSE ""

\* set_action_multiplier, lines 242-255
set_action_multiplier(caller, action_type, multiplier) ==
  /\ Transaction("set_action_multiplier", caller,
                 [action_type |-> action_type, multiplier |-> multiplier],
                 admin_error(caller))
  /\ IF admin_error(caller) # ""
       THEN Reverted
       ELSE /\ action_multipliers' = [action_multipliers EXCEPT ![action_type] = multiplier]
            /\ UNCHANGED <<user_xp, user_level, is_paused, ledgerLog,
                           user_action_cooldowns, backend_address, xpEvents>>
  /\ UNCHANGED <<block_timestamp, ledgerFixed>>

\* pause_contract, lines 257-265
pause_contract(caller) ==
  /\ Transaction("pause_contract", caller, << >>, admin_error(caller))
  /\ IF admin_error(caller) # ""
       THEN Reverted
       ELSE /\ is_paused' = TRUE
            /\ UNCHANGED <<user_xp, user_level, ledgerLog, user_action_cooldowns,
                           action_multipliers, backend_address, xpEvents>>
  /\ UNCHANGED <<block_timestamp, ledgerFixed>>

\* unpause_contract, lines 267-275
unpause_contract(caller) ==
  /\ Transaction("unpause_contract", caller, << >>, admin_error(caller))
  /\ IF admin_error(caller) # ""
       THEN Reverted
       ELSE /\ is_paused' = FALSE
            /\ UNCHANGED <<user_xp, user_level, ledgerLog, user_action_cooldowns,
                           action_multipliers, backend_address, xpEvents>>
  /\ UNCHANGED <<block_timestamp, ledgerFixed>>

\* update_backend_address, lines 277-284
update_backend_address(caller, new_backend) ==
  /\ Transaction("update_backend_address", caller, new_backend, admin_error(caller))
  /\ IF admin_error(caller) # ""
       THEN Reverted
       ELSE /\ backend_address' = new_backend
            /\ UNCHANGED <<user_xp, user_level, is_paused, ledgerLog,
                           user_action_cooldowns, action_multipliers, xpEvents>>
  /\ UNCHANGED <<block_timestamp, ledgerFixed>>

\* the block times of a run
LedgerClock == {0, 30, 60, 90}

\* a later block
NextBlock(t) ==
  /\ t > block_timestamp
  /\ block_timestamp' = t
  /\ UNCHANGED <<user_xp, user_level, is_paused, ledgerLog, user_action_cooldowns,
                 action_multipliers, backend_address, xpEvents, lastTx, ledgerFixed>>

\* the award_xp calls of a run
AwardActions == {"daily_login", "referral"}

AwardAmounts == {100}

InitLedger ==
  /\ now = StartTime
  /\ InitStores([row |-> TRUE, history |-> << >>, streak |-> 0])
  /\ SyncAtRest
  /\ BoardAtRest
  /\ ExtraAtRest
  /\ fnIn = << >>
  /\ fnOut = << >>
  /\ \E t \in {0, 30} : Deployed(t)

NextLedger ==
  \/ \E caller \in Callers :
       \/ \E updates \in Batches : batch_award_xp(caller, updates)
       \/ \E user \in Addresses, action_type \in AwardActions, base_amount \in AwardAmounts :
            award_xp(caller, user, action_type, base_amount)
       \/ set_action_multiplier(caller, "daily_login", 3)
       \/ pause_contract(caller)
       \/ unpause_contract(caller)
       \/ update_backend_address(caller, "other")
  \/ \E t \in LedgerClock : NextBlock(t)

SpecLedger == InitLedger /\ [][NextLedger]_vars

(***************************************************************************)
(* Redis sorted sets, as the leaderboard code uses them.  leaderboard      *)
(* holds the entries [key, member, score] of all sorted sets.  ZREVRANGE   *)
(* and ZREVRANK order by score, highest first, and members of equal score  *)
(* by member string, highest first.  Members are user ids printed in       *)
(* decimal; scores are whole numbers far below 2^53, which Redis prints    *)
(* and parseInt reads back unchanged.                                      *)
(***************************************************************************)
null == 0 - 1

\* a < b for the strings userId.toString() of two ids below 100
StringLess(a, b) ==
  LET x == Digits(a)
      y == Digits(b)
  IN  \/ x[1] < y[1]
      \/ x[1] = y[1] /\ Len(x) < Len(y)
      \/ x[1] = y[1] /\ Len(x) = 2 /\ Len(y) = 2 /\ x[2] < y[2]

Members(board, key) == {e \in board : e.key = key}

\* e comes before f in ZREVRANGE
Before(e, f) ==
  \/ e.score > f.score
  \/ e.score = f.score /\ StringLess(f.member, e.member)

zrevrank(board, key, member) ==
  LET es == Members(board, key)
  IN  IF \E e \in es : e.member = member
        THEN LET me == CHOOSE e \in es : e.member = member
             IN  Cardinality({f \in es : Before(f, me)})
        ELSE null

zadd(board, key, score, member) ==
  {e \in board : ~(e.key = key /\ e.member = member)}
    \cup {[key |-> key, member |-> member, score |-> score]}

\* ZREVRANGE key start stop WITHSCORES: the entries of rank start..stop
zrevrange(board, key, start, stop) ==
  LET es   == Members(board, key)
      last == IF stop < Cardinality(es) - 1 THEN stop ELSE Cardinality(es) - 1
  IN  [i \in 1..(IF last < start THEN 0 ELSE last - start + 1) |->
         CHOOSE e \in es : zrevrank(board, key, e.member) = start + i - 1]

(***************************************************************************)
(* The sorted-set keys of the three services.  XPService writes            *)
(* leaderboard:weekly:<getCurrentWeekKey()>; LeaderboardService (the       *)
(* singleton of AchivementService.ts) reads and writes                     *)
(* leaderboard:weekly:<year>-W<getWeekNumber(now)>; the LeaderboardService *)
(* of LeaderboardService.ts reads leaderboard:weekly:<year>-<month>-<n>    *)
(* and leaderboard:monthly:<year>-<month> with the month not padded.       *)
(***************************************************************************)
Windows == {"global", "weekly", "monthly"}

\* XPService.updateLeaderboard and XPService.getLeaderboard
XPKey(type, t) ==
  CASE type = "global" -> <<"global", 0>>
    [] type = "weekly" -> <<"weekly", getCurrentWeekKey(t)>>
    [] type = "monthly" -> <<"monthly", getCurrentMonthKey(t)>>

\* LeaderboardService.getWeekNumber:
\* Math.ceil((pastDaysOfYear + firstDayOfYear.getDay() + 1) / 7)
getWeekNumber(t) ==
  LET start == YearStart(getFullYear(t))
  IN  CeilDiv((t - start) + (getDay(start) + 1) * SecondsPerDay, SecondsPerWeek)

\* LeaderboardService.getLeaderboardKey (AchivementService.ts)
getLeaderboardKey(type, t) ==
  CASE type = "global" -> <<"global", 0>>
    [] type = "weekly" -> <<"weekly", <<getFullYear(t), getWeekNumber(t)>>>>
    [] type = "monthly" -> <<"monthly", getCurrentMonthKey(t)>>

\* now.getUTCDate()
getUTCDate(t) ==
  Day(t - YearStart(getFullYear(t))) - MonthStarts[getMonth1(t)] + 1

\* LeaderboardService.getLeaderboardKey (LeaderboardService.ts)
getLeaderboardKeyPlain(type, t) ==
  CASE type = "global" -> <<"global", 0>>
    [] type = "weekly" ->
         <<"weekly", <<getFullYear(t), Digits(getMonth1(t)), CeilDiv(getUTCDate(t), 7)>>>>
    [] type = "monthly" -> <<"monthly", <<getFullYear(t), Digits(getMonth1(t))>>>>

\* LeaderboardService.getUserRank
getUserRank(board, userId, type, t) ==
  LET rank == zrevrank(board, getLeaderboardKey(type, t), userId)
  IN  IF rank # null THEN rank + 1 ELSE null

(***************************************************************************)
(* Ranking.  Awards that have committed write the new total into the three *)
(* sorted sets (XPService.updateLeaderboard, one zadd per step, awards of  *)
(* different users overlapping); the three getLeaderboard implementations  *)
(* and LeaderboardService.getUserRank read them.  One award per user is in *)
(* flight at a time.  The ranking may hold the scores of a user who has    *)
(* left (no users row and no user_stats row).                              *)
(***************************************************************************)
\* awards and queries of a run
MaxBoardOps == 3

\* private readonly CACHE_TTL = 60
CACHE_TTL == 60

BoardUsers == {1, 2, 3}

\* a user whose rows are gone and whose scores are still ranked
Departed == 9

BoardAmounts == {20, 100}

Limits == {2, 100}

Offsets == {0, 1}

\* Saturday 1970-01-03, noon
Saturday == StartTime + 2 * SecondsPerDay

BoardClock == {StartTime, Saturday}

NoAward == [pc |-> "idle", totalXP |-> 0, at |-> null]

\* the stores of awardXP with nothing in flight
CoreAtRest(stats, board) ==
  /\ user_stats = stats
  /\ xp_logs = << >>
  /\ achievements = {}
  /\ minted = << >>
  /\ cooldowns = [k \in Users \X ActionTypes |-> NoKey]
  /\ leaderboard = board
  /\ xp_intents = << >>
  /\ wsOut = << >>
  /\ pc = [p \in Procs |-> "idle"]
  /\ loc = [p \in Procs |-> NoLoc]
  /\ calls = << >>
  /\ total0 = [u \in DOMAIN stats |-> stats[u].xp_total]
  /\ effects = {}
  /\ faults = 0
  /\ fnIn = << >>
  /\ fnOut = << >>

\* the scores XPService.updateLeaderboard wrote for a user at time t
ScoresOf(u, xp, t) ==
  {[key |-> XPKey(type, t), member |-> u, score |-> xp] : type \in Windows}

InitBoard ==
  /\ now \in BoardClock
  /\ \E gone \in {{}, {Departed}} :
       CoreAtRest([u \in BoardUsers |-> StatsRow(0, 1, 0)],
                  UNION {ScoresOf(u, 50, now) : u \in gone})
  /\ users = BoardUsers
  /\ awards = [u \in BoardUsers |-> NoAward]
  /\ cache = {}
  /\ listing = NoListing
  /\ boardOps = 0
  /\ SyncAtRest
  /\ LedgerAtRest
  /\ ExtraAtRest

boardFixed == <<xp_logs, achievements, minted, cooldowns, xp_intents, wsOut, pc, loc,
                calls, total0, effects, faults, fnIn, fnOut, syncVars, ledgerVars,
                users, extraVars>>

(***************************************************************************)
(* awardXP lines 120-146 for a user with a profile: the total and the      *)
(* level are committed; updateLeaderboard follows.                         *)
(***************************************************************************)
AwardCommitted(u, amount) ==
  /\ boardOps < MaxBoardOps
  /\ awards[u].pc = "idle"
  /\ LET xp  == user_stats[u].xp_total + amount
         lvl == IF calculateLevel(xp) > user_stats[u].level THEN calculateLevel(xp)
                ELSE user_stats[u].level
     IN  /\ user_stats' = [user_stats EXCEPT ![u] = StatsRow(xp, lvl, @.current_streak)]
         /\ awards' = [awards EXCEPT ![u] = [pc |-> "global", totalXP |-> xp, at |-> now]]
  /\ boardOps' = boardOps + 1
  /\ UNCHANGED <<now, leaderboard, cache, listing, boardFixed>>

\* updateLeaderboard: the next of its three zadd
XPUpdateLeaderboard(u) ==
  /\ awards[u].pc # "idle"
  /\ leaderboard' = zadd(leaderboard, XPKey(awards[u].pc, now), awards[u].totalXP, u)
  /\ awards' = [awards EXCEPT ![u].pc =
                  CASE @ = "global" -> "weekly"
                    [] @ = "weekly" -> "monthly"
                    [] @ = "monthly" -> "idle"]
  /\ UNCHANGED <<now, user_stats, cache, listing, boardOps, boardFixed>>

\* the rank getUserRank reports for each user now
RanksNow(type) ==
  [u \in BoardUsers \cup {Departed} |-> getUserRank(leaderboard, u, type, now)]

\* FROM users u JOIN user_stats us ON u.id = us.user_id
HasUserAndStats(u) == u \in users /\ u \in DOMAIN user_stats /\ user_stats[u].exists

Entry(rank, e) == [rank |-> rank, userId |-> e.member, xp |-> e.score]

\* LeaderboardService.buildLeaderboardEntries: rank starts at offset + 1 and
\* moves on only for a user whose rows were found
buildLeaderboardEntries(redisData, offset) ==
  LET found == SelectSeq(redisData, LAMBDA e : HasUserAndStats(e.member))
  IN  [i \in 1..Len(found) |-> Entry(offset + i, found[i])]

\* redis.get(cacheKey): the entries that have not expired
Cached(type, limit, offset) ==
  {c \in cache : /\ c.key = <<getLeaderboardKey(type, now), limit, offset>>
                 /\ c.expires > now}

\* what LeaderboardService.getLeaderboard (AchivementService.ts) returns now
getLeaderboardResult(type, limit, offset) ==
  LET topUsers == zrevrange(leaderboard, getLeaderboardKey(type, now), offset,
                            offset + limit - 1)
  IN  IF Cached(type, limit, offset) # {}
        THEN (CHOOSE c \in Cached(type, limit, offset) : TRUE).value
        ELSE IF topUsers = << >> THEN << >>
        ELSE buildLeaderboardEntries(topUsers, offset)

(***************************************************************************)
(* LeaderboardService.getLeaderboard (AchivementService.ts 824-861): the   *)
(* cached list if there is one, else the list built from the sorted set,   *)
(* which is cached for CACHE_TTL seconds unless the sorted set gave        *)
(* nothing.  Nothing deletes a cache entry: updateLeaderboard deletes the  *)
(* key without the :limit:offset suffix.                                   *)
(***************************************************************************)
getLeaderboard(type, limit, offset) ==
  /\ boardOps < MaxBoardOps
  /\ boardOps' = boardOps + 1
  /\ LET key    == getLeaderboardKey(type, now)
         result == getLeaderboardResult(type, limit, offset)
     IN  /\ listing' = [impl |-> "LeaderboardService", type |-> type, limit |-> limit,
                        offset |-> offset, entries |-> result, ranks |-> RanksNow(type)]
         /\ cache' =
              IF Cached(type, limit, offset) = {}
                 /\ zrevrange(leaderboard, key, offset, offset + limit - 1) # << >>
                THEN {c \in cache : c.key # <<key, limit, offset>>}
                       \cup {[key |-> <<key, limit, offset>>, value |-> result,
                              expires |-> now + CACHE_TTL]}
                ELSE cache
  /\ UNCHANGED <<now, user_stats, leaderboard, awards, boardFixed>>

(***************************************************************************)
(* LeaderboardService.getLeaderboard of LeaderboardService.ts (53-102):    *)
(* the rows of the users found, in the order the SELECT returns them       *)
(* (it has no ORDER BY), ranked by their index in that order.              *)
(***************************************************************************)
getLeaderboardPlain(type, limit) ==
  /\ boardOps < MaxBoardOps
  /\ boardOps' = boardOps + 1
  /\ LET results == zrevrange(leaderboard, getLeaderboardKeyPlain(type, now), 0, limit - 1)
         found   == SelectSeq(results, LAMBDA e : e.member \in users)
     IN  \E order \in Permutations(1..Len(found)) :
           listing' = [impl |-> "LeaderboardService.ts", type |-> type, limit |-> limit,
                       offset |-> 0,
                       entries |-> [i \in 1..Len(found) |-> Entry(i, found[order[i]])],
                       ranks |-> RanksNow(type)]
  /\ UNCHANGED <<now, user_stats, leaderboard, awards, cache, boardFixed>>

(***************************************************************************)
(* XPService.getLeaderboard (392-430): one users lookup per ranked member; *)
(* the rank is the member's place in the sorted set.                       *)
(***************************************************************************)
getLeaderboardXP(type, limit) ==
  /\ boardOps < MaxBoardOps
  /\ boardOps' = boardOps + 1
  /\ LET topUsers == zrevrange(leaderboard, XPKey(type, now), 0, limit - 1)
         ranked   == [i \in 1..Len(topUsers) |-> Entry(i, topUsers[i])]
     IN  listing' = [impl |-> "XPService", type |-> type, limit |-> limit, offset |-> 0,
                     entries |-> SelectSeq(ranked, LAMBDA x : x.userId \in users),
                     ranks |-> RanksNow(type)]
  /\ UNCHANGED <<now, user_stats, leaderboard, awards, cache, boardFixed>>

\* time passes between calls
BoardTick(t) ==
  /\ t > now
  /\ \A u \in BoardUsers : awards[u].pc = "idle"
  /\ now' = t
  /\ UNCHANGED <<user_stats, leaderboard, awards, cache, listing, boardOps, boardFixed>>

NextBoard ==
  \/ \E u \in BoardUsers :
       \/ \E amount \in BoardAmounts : AwardCommitted(u, amount)
       \/ XPUpdateLeaderboard(u)
  \/ \E type \in Windows, limit \in Limits :
       \/ \E offset \in Offsets : getLeaderboard(type, limit, offset)
       \/ getLeaderboardPlain(type, limit)
       \/ getLeaderboardXP(type, limit)
  \/ \E t \in BoardClock : BoardTick(t)

SpecBoard == InitBoard /\ [][NextBoard]_vars

(***************************************************************************)
(* LeaderboardService (AchivementService.ts): updateUserScore writes a     *)
(* score to the three windows, one updateLeaderboard after the other; each *)
(* updateLeaderboard reads the old rank, writes the score, reads the new   *)
(* rank and notifies.  resetWeeklyLeaderboard archives and clears the      *)
(* window of seven days ago.                                               *)
(***************************************************************************)
MaxRankOps == 2

RANK_CHANGE_THRESHOLD == 10

\* the users whose scores are updated, and 21 ranked users that stay put
Movers == {1, 2}

Residents == 11..31

RankUsers == Movers \cup Residents

\* resident 11 holds 990, resident 12 holds 980, .. resident 31 holds 790
ResidentScore(r) == 1000 - 10 * (r - 10)

\* the first mover starts at rank 20
MoverStart == ResidentScore(31) + 5

\* new scores: rank 11, rank 10 and rank 9 among the residents
ScoreInputs == {885, 895, 905}

\* Thursday 1970-01-01 noon, Thursday 1970-01-08 noon,
\* Wednesday 1970-12-30 noon and Friday 1971-01-01 noon
YearEnd == StartTime + 363 * SecondsPerDay

NewYear == StartTime + 365 * SecondsPerDay

RankClock == {StartTime, StartTime + SecondsPerWeek, YearEnd, NewYear}

\* Saturday 1970-01-10 00:00:00, the last second getWeekNumber counts to
\* week 2; one second later week 3 has begun
WeekEnd == 9 * SecondsPerDay

RankScoresOf(u, xp, t) ==
  {[key |-> getLeaderboardKey(type, t), member |-> u, score |-> xp] : type \in Windows}

Populated(t) ==
  RankScoresOf(1, MoverStart, t)
    \cup UNION {RankScoresOf(r, ResidentScore(r), t) : r \in Residents}

InitRank ==
  /\ now \in {StartTime, YearEnd, WeekEnd}
  /\ \E full \in BOOLEAN :
       /\ CoreAtRest([u \in RankUsers |->
                        IF full /\ u \in Residents
                          THEN StatsRow(ResidentScore(u), calculateLevel(ResidentScore(u)), 0)
                        ELSE IF full /\ u = 1
                          THEN StatsRow(MoverStart, calculateLevel(MoverStart), 0)
                        ELSE StatsRow(0, 1, 0)],
                     IF full THEN Populated(now) ELSE {})
       /\ lastWeekly = IF full
                         THEN [key |-> getLeaderboardKey("weekly", now), at |-> now]
                         ELSE NeverWritten
  /\ scoreCalls = [p \in Scorers |-> NoScoreCall]
  /\ updateQueue = {}
  /\ snapshots = {}
  /\ rollover = NoRollover
  /\ rankLog = {}
  /\ rolledAt = NoKey
  /\ rankOps = 0
  /\ SyncAtRest
  /\ LedgerAtRest
  /\ BoardAtRest
  /\ WsAtRest

rankFixed == <<xp_logs, minted, cooldowns, xp_intents, pc, loc, calls, total0, effects,
               faults, fnIn, fnOut, syncVars, ledgerVars, boardVars, wsVars>>

\* updateUserScore, lines 724-727: the call starts with the global window
updateUserScore(p, userId, newXP) ==
  /\ rankOps < MaxRankOps
  /\ scoreCalls[p].pc = "idle"
  /\ \A q \in Scorers : q < p => scoreCalls[q].pc # "idle"
  /\ scoreCalls' = [scoreCalls EXCEPT ![p] =
                      [pc |-> "zrevrankOld", type |-> "global", userId |-> userId,
                       score |-> newXP, key |-> getLeaderboardKey("global", now),
                       oldRank |-> null, call |-> rankOps + 1]]
  /\ rankOps' = rankOps + 1
  /\ UNCHANGED <<now, user_stats, achievements, leaderboard, wsOut, updateQueue,
                 snapshots, rollover, rankLog, lastWeekly, rolledAt, rankFixed>>

\* updateLeaderboard, line 747: the old rank
ZrevrankOld(p) ==
  /\ scoreCalls[p].pc = "zrevrankOld"
  /\ scoreCalls' = [scoreCalls EXCEPT
                      ![p].oldRank = zrevrank(leaderboard, scoreCalls[p].key,
                                              scoreCalls[p].userId),
                      ![p].pc = "zadd"]
  /\ UNCHANGED <<now, user_stats, achievements, leaderboard, wsOut, updateQueue,
                 snapshots, rollover, rankLog, lastWeekly, rolledAt, rankOps, rankFixed>>

\* updateLeaderboard, line 750: the score is written
ZaddScore(p) ==
  /\ scoreCalls[p].pc = "zadd"
  /\ leaderboard' = zadd(leaderboard, scoreCalls[p].key, scoreCalls[p].score,
                         scoreCalls[p].userId)
  /\ lastWeekly' = IF scoreCalls[p].type = "weekly"
                     THEN [key |-> scoreCalls[p].key, at |-> now]
                     ELSE lastWeekly
  /\ scoreCalls' = [scoreCalls EXCEPT ![p].pc = "zrevrankNew"]
  /\ UNCHANGED <<now, user_stats, achievements, wsOut, updateQueue, snapshots, rollover,
                 rankLog, rolledAt, rankOps, rankFixed>>

\* the test of lines 756-759
Significant(oldRank, newRank) ==
  /\ oldRank # null
  /\ newRank # null
  /\ \/ oldRank - newRank >= RANK_CHANGE_THRESHOLD
     \/ newRank - oldRank >= RANK_CHANGE_THRESHOLD
     \/ newRank < 10

\* notifyRankChange, lines 1032-1053
RankChangeMessage(userId, oldRank, newRank, type) ==
  [to |-> userId, type |-> "rank_change",
   data |-> [type |-> type, oldRank |-> oldRank, newRank |-> newRank,
             change |-> oldRank - newRank]]

NextWindow(type) == IF type = "global" THEN "weekly" ELSE "monthly"

\* updateLeaderboard, lines 753-766: the new rank, the notification and the
\* del of `${key}:cache`, a key nothing ever sets; then the next window or,
\* after the monthly one, queueUpdate('global', userId) of line 732
ZrevrankNew(p) ==
  /\ scoreCalls[p].pc = "zrevrankNew"
  /\ LET c       == scoreCalls[p]
         newRank == zrevrank(leaderboard, c.key, c.userId)
         sent    == Significant(c.oldRank, newRank)
     IN  /\ wsOut' = IF sent
                       THEN Append(wsOut, RankChangeMessage(c.userId, c.oldRank + 1,
                                                            newRank + 1, c.type))
                       ELSE wsOut
         /\ rankLog' = rankLog \cup {[call |-> c.call, type |-> c.type,
                                      userId |-> c.userId, oldRank |-> c.oldRank,
                                      newRank |-> newRank, notified |-> sent,
                                      key |-> c.key, score |-> c.score]}
         /\ IF c.type = "monthly"
              THEN /\ scoreCalls' = [scoreCalls EXCEPT ![p] = NoScoreCall]
                   /\ updateQueue' = updateQueue \cup {<<"global", c.userId>>}
              ELSE /\ scoreCalls' = [scoreCalls EXCEPT
                                       ![p].pc = "zrevrankOld",
                                       ![p].type = NextWindow(c.type),
                                       ![p].key = getLeaderboardKey(NextWindow(c.type), now),
                                       ![p].oldRank = null]
                   /\ UNCHANGED updateQueue
  /\ UNCHANGED <<now, user_stats, achievements, leaderboard, snapshots, rollover,
                 lastWeekly, rolledAt, rankOps, rankFixed>>

\* getPreviousWeekKey: the key of the date seven days ago
getPreviousWeekKey(t) == getLeaderboardKey("weekly", t - SecondsPerWeek)

\* resetWeeklyLeaderboard, lines 1056-1065: the keys and the top 100 of the
\* previous week
ResetWeeklyLeaderboard ==
  /\ rankOps < MaxRankOps
  /\ rollover.pc = "idle"
  /\ now >= SecondsPerWeek
  /\ LET previousWeek == getPreviousWeekKey(now)
         topUsers     == zrevrange(leaderboard, previousWeek, 0, 99)
     IN  rollover' = [pc |-> IF Len(topUsers) > 0 THEN "insert" ELSE "del",
                      previousWeek |-> previousWeek, topUsers |-> topUsers]
  /\ rankOps' = rankOps + 1
  /\ UNCHANGED <<now, user_stats, achievements, leaderboard, wsOut, scoreCalls,
                 updateQueue, snapshots, rankLog, lastWeekly, rolledAt, rankFixed>>

\* lines 1067-1079: INSERT INTO leaderboard_snapshots
InsertSnapshot ==
  /\ rollover.pc = "insert"
  /\ snapshots' = snapshots \cup {[id |-> Cardinality(snapshots) + 1,
                                   period_type |-> "weekly",
                                   week |-> rollover.previousWeek,
                                   period_end |-> now,
                                   rankings |-> rollover.topUsers]}
  /\ rollover' = [rollover EXCEPT !.pc = "rewards"]
  /\ UNCHANGED <<now, user_stats, achievements, leaderboard, wsOut, scoreCalls,
                 updateQueue, rankLog, lastWeekly, rolledAt, rankOps, rankFixed>>

\* awardWeeklyRewards, lines 1089-1109
WeeklyRewards == <<[xp |-> 1000, achievement |-> "weekly_champion"],
                   [xp |-> 500, achievement |-> "weekly_runner_up"],
                   [xp |-> 250, achievement |-> "weekly_third"]>>

Rewarded(topUsers) ==
  1..(IF Len(topUsers) < 3 THEN Len(topUsers) ELSE 3)

\* awardBonusXP and awardAchievement for the first three of the listing
AwardWeeklyRewards ==
  /\ rollover.pc = "rewards"
  /\ LET top == rollover.topUsers
     IN  /\ user_stats' =
              [u \in DOMAIN user_stats |->
                 IF \E i \in Rewarded(top) : top[i].member = u
                   THEN LET i == CHOOSE i \in Rewarded(top) : top[i].member = u
                        IN  [user_stats[u] EXCEPT !.xp_total = @ + WeeklyRewards[i].xp]
                   ELSE user_stats[u]]
         /\ achievements' = achievements \cup
              {[user_id |-> top[i].member,
                achievement_type |-> WeeklyRewards[i].achievement] : i \in Rewarded(top)}
  /\ rollover' = [rollover EXCEPT !.pc = "del"]
  /\ UNCHANGED <<now, leaderboard, wsOut, scoreCalls, updateQueue, snapshots, rankLog,
                 lastWeekly, rolledAt, rankOps, rankFixed>>

\* line 1086: the previous week's sorted set is deleted
DelPreviousWeek ==
  /\ rollover.pc = "del"
  /\ leaderboard' = leaderboard \ Members(leaderboard, rollover.previousWeek)
  /\ rolledAt' = now
  /\ rollover' = NoRollover
  /\ UNCHANGED <<now, user_stats, achievements, wsOut, scoreCalls, updateQueue,
                 snapshots, rankLog, lastWeekly, rankOps, rankFixed>>

\* the INSERT, an UPDATE of awardWeeklyRewards or the del rejects:
\* resetWeeklyLeaderboard has no try block, the call ends there
RolloverFail ==
  /\ rollover.pc \in {"insert", "rewards", "del"}
  /\ rollover' = NoRollover
  /\ UNCHANGED <<now, user_stats, achievements, leaderboard, wsOut, scoreCalls,
                 updateQueue, snapshots, rankLog, lastWeekly, rolledAt, rankOps, rankFixed>>

\* time passes while no call is in flight
RankTick(t) ==
  /\ t > now
  /\ \A p \in Scorers : scoreCalls[p].pc = "idle"
  /\ rollover.pc = "idle"
  /\ now' = t
  /\ UNCHANGED <<user_stats, achievements, leaderboard, wsOut, rankVars, rankFixed>>

\* the week ends while calls are in flight: a call takes milliseconds, and
\* the second after WeekEnd belongs to the next week
WeekTurns ==
  /\ now = WeekEnd
  /\ now' = WeekEnd + 1
  /\ UNCHANGED <<user_stats, achievements, leaderboard, wsOut, rankVars, rankFixed>>

NextRank ==
  \/ WeekTurns
  \/ \E p \in Scorers :
       \/ \E userId \in Movers, newXP \in ScoreInputs : updateUserScore(p, userId, newXP)
       \/ ZrevrankOld(p)
       \/ ZaddScore(p)
       \/ ZrevrankNew(p)
  \/ ResetWeeklyLeaderboard
  \/ InsertSnapshot
  \/ AwardWeeklyRewards
  \/ DelPreviousWeek
  \/ RolloverFail
  \/ \E t \in RankClock : RankTick(t)

SpecRank == InitRank /\ [][NextRank]_vars

(***************************************************************************)
(* WebSocketService (websocket/index.ts).  clients is a Map from userId to *)
(* the Set of that user's connections, kept here in insertion order with   *)
(* the serial of each entry, as a Map iterator sees it.  Subscriptions are *)
(* Redis sets keyed by user.  wsSent logs the ws.send calls made on each   *)
(* connection.                                                             *)
(***************************************************************************)
MaxWsOps == 5

Channels == {"leaderboard", "trades"}

\* the token of a connection attempt: u for a token signed for user u, 0
\* for no token, -1 for a token that is not validly signed
Tokens == WsUsers \cup {0, 0 - 1}

\* line 55: verify(token, JWT_SECRET) returns the payload and does not throw
\* mutant: any token that is present passes
verify_Any(token) == token # 0

verify(token) == token \in WsUsers

InitWs ==
  /\ now = StartTime
  /\ CoreAtRest([u \in Users |-> StatsRow(0, 1, 0)], {})
  /\ SyncAtRest
  /\ LedgerAtRest
  /\ BoardAtRest
  /\ RankAtRest
  /\ WsAtRest

wsFixed_NoLate == <<now, storeVars, pc, loc, calls, total0, effects, faults, fnIn,
                    fnOut, syncVars, ledgerVars, boardVars, rankVars>>

wsFixed == <<wsFixed_NoLate, lateVars>>

\* this.clients.has(userId)
ClientsHas(map, u) == \E i \in DOMAIN map : map[i].userId = u

\* this.clients.get(userId), {} for undefined
ClientsGet(map, u) ==
  IF ClientsHas(map, u)
    THEN map[CHOOSE i \in DOMAIN map : map[i].userId = u].conns
    ELSE {}

\* lines 60-63: set(userId, new Set()) if absent, then add(ws)
ClientsAdd(map, u, c, serial) ==
  IF ClientsHas(map, u)
    THEN [i \in DOMAIN map |->
            IF map[i].userId = u THEN [map[i] EXCEPT !.conns = @ \cup {c}] ELSE map[i]]
    ELSE Append(map, [userId |-> u, serial |-> serial, conns |-> {c}])

\* lines 107-111: delete(ws), and delete(userId) when the set is empty
ClientsDelete(map, u, c) ==
  LET less == [i \in DOMAIN map |->
                 IF map[i].userId = u THEN [map[i] EXCEPT !.conns = @ \ {c}] ELSE map[i]]
  IN  SelectSeq(less, LAMBDA en : en.conns # {})

\* sendToClient: ws.send(JSON.stringify(message))
sendToClient(log, c, message) == [log EXCEPT ![c] = Append(@, message)]

\* the 'connection' handler, lines 41-84
Connection(c, token) ==
  /\ wsOps < MaxWsOps
  /\ sockets[c].readyState = "NONE"
  /\ \A d \in Conns : d < c => sockets[d].readyState # "NONE"
  /\ IF token = 0 \/ ~verify(token)
       THEN /\ sockets' = [sockets EXCEPT ![c] = [readyState |-> "CLOSING", userId |-> 0,
                                                  token |-> token]]
            /\ UNCHANGED <<clients, wsSent, wsVersion, isAlive>>
       ELSE /\ sockets' = [sockets EXCEPT ![c] = [readyState |-> "OPEN", userId |-> token,
                                                  token |-> token]]
            /\ isAlive' = [isAlive EXCEPT ![c] = "true"]
            /\ clients' = ClientsAdd(clients, token, c, wsVersion + 1)
            /\ wsSent' = sendToClient(wsSent, c, [type |-> "connected", call |-> 0,
                                                  event |-> 0, userId |-> token])
            /\ wsVersion' = wsVersion + 1
  /\ wsOps' = wsOps + 1
  /\ UNCHANGED <<subscriptions, lbEvent, wanted, lastSend, wsFixed>>

\* the peer or the heartbeat (lines 203-215) starts closing the connection
Closing(c) ==
  /\ wsOps < MaxWsOps
  /\ sockets[c].readyState = "OPEN"
  /\ sockets' = [sockets EXCEPT ![c].readyState = "CLOSING"]
  /\ wsVersion' = wsVersion + 1
  /\ wsOps' = wsOps + 1
  /\ UNCHANGED <<clients, subscriptions, lbEvent, wsSent, wanted, lastSend,
                 isAlive, wsFixed>>

\* the 'close' handler, lines 104-115; a connection rejected at line 49 or
\* 82 has no handler
Close(c) ==
  /\ sockets[c].readyState = "CLOSING"
  /\ sockets' = [sockets EXCEPT ![c].readyState = "CLOSED"]
  /\ clients' = IF sockets[c].userId # 0
                  THEN ClientsDelete(clients, sockets[c].userId, c)
                  ELSE clients
  /\ wsVersion' = wsVersion + 1
  /\ UNCHANGED <<subscriptions, lbEvent, wsSent, wanted, lastSend, wsOps,
                 isAlive, wsFixed>>

\* a 'subscribe' message, lines 152-162: sadd, then the reply
handleSubscribe(c, channel) ==
  /\ wsOps < MaxWsOps
  /\ sockets[c].readyState = "OPEN"
  /\ subscriptions' = [subscriptions EXCEPT ![sockets[c].userId] = @ \cup {channel}]
  /\ wanted' = [wanted EXCEPT ![c] = @ \cup {channel}]
  /\ wsSent' = sendToClient(wsSent, c, [type |-> "subscribed", call |-> 0, event |-> 0])
  /\ wsVersion' = wsVersion + 1
  /\ wsOps' = wsOps + 1
  /\ UNCHANGED <<sockets, clients, lbEvent, lastSend, isAlive, wsFixed>>

\* an 'unsubscribe' message, lines 164-174: srem, then the reply
handleUnsubscribe(c, channel) ==
  /\ wsOps < MaxWsOps
  /\ sockets[c].readyState = "OPEN"
  /\ subscriptions' = [subscriptions EXCEPT ![sockets[c].userId] = @ \ {channel}]
  /\ wanted' = [wanted EXCEPT ![c] = @ \ {channel}]
  /\ wsSent' = sendToClient(wsSent, c, [type |-> "unsubscribed", call |-> 0, event |-> 0])
  /\ wsVersion' = wsVersion + 1
  /\ wsOps' = wsOps + 1
  /\ UNCHANGED <<sockets, clients, lbEvent, lastSend, isAlive, wsFixed>>

\* sendToUser, lines 289-296: the connections the message goes to
\* mutant: without the readyState test
OpenClients_AnyState(userId) == ClientsGet(clients, userId)

OpenClients(userId) ==
  {client \in ClientsGet(clients, userId) : sockets[client].readyState = "OPEN"}

\* sendToUser: one sendToClient for each of them
sendToUser(userId, type, event) ==
  LET message == [type |-> type, call |-> lastSend.call + 1, event |-> event]
  IN  /\ wsSent' = [c \in Conns |->
                      IF c \in OpenClients(userId) THEN Append(wsSent[c], message)
                      ELSE wsSent[c]]
      /\ lastSend' = [call |-> lastSend.call + 1, userId |-> userId,
                      sockets |-> sockets]

\* broadcast, lines 300-306: every open connection of the server
broadcast ==
  /\ wsOps < MaxWsOps
  /\ wsSent' = [c \in Conns |->
                  IF sockets[c].readyState = "OPEN"
                    THEN Append(wsSent[c], [type |-> "broadcast", call |-> 0, event |-> 0])
                    ELSE wsSent[c]]
  /\ wsOps' = wsOps + 1
  /\ UNCHANGED <<sockets, clients, subscriptions, lbEvent, wanted, lastSend, wsVersion,
                 isAlive, wsFixed>>

\* a service calls sendToUser
SendToUser_Call(userId) ==
  /\ wsOps < MaxWsOps
  /\ sendToUser(userId, "message", 0)
  /\ wsOps' = wsOps + 1
  /\ UNCHANGED <<sockets, clients, subscriptions, lbEvent, wanted, wsVersion,
                 isAlive, wsFixed>>

\* the Map iterator of line 273: the first entry inserted after `serial`
NextEntry(serial) ==
  IF \E i \in DOMAIN clients : clients[i].serial > serial
    THEN LET i == CHOOSE i \in DOMAIN clients :
                    /\ clients[i].serial > serial
                    /\ \A j \in DOMAIN clients : clients[j].serial > serial => i <= j
         IN  [pc |-> "smembers", serial |-> clients[i].serial, userId |-> clients[i].userId]
    ELSE [pc |-> "done", serial |-> serial, userId |-> 0]

\* publishLeaderboardUpdate, lines 337-341, and the start of
\* handleLeaderboardUpdate for the message: the loop reaches its first await
handleLeaderboardUpdate(updates) ==
  /\ wsOps < MaxWsOps
  /\ lbEvent.pc \in {"idle", "done"}
  /\ LET first == NextEntry(0)
     IN  lbEvent' = [pc |-> first.pc, serial |-> first.serial, userId |-> first.userId,
                     updates |-> updates, event |-> wsOps + 1, subs |-> {},
                     version |-> wsVersion]
  /\ wsOps' = wsOps + 1
  /\ UNCHANGED <<sockets, clients, subscriptions, wsSent, wanted, lastSend,
                 wsVersion, isAlive, wsFixed>>

\* line 274: Redis answers smembers
Smembers ==
  /\ lbEvent.pc = "smembers"
  /\ lbEvent' = [lbEvent EXCEPT !.pc = "deliver", !.subs = subscriptions[lbEvent.userId]]
  /\ UNCHANGED <<sockets, clients, subscriptions, wsSent, wanted, lastSend,
                 wsVersion, wsOps, isAlive, wsFixed>>

\* lines 276-284, and the next turn of the loop
Deliver ==
  /\ lbEvent.pc = "deliver"
  /\ IF "leaderboard" \in lbEvent.subs /\ lbEvent.userId \in lbEvent.updates
       THEN sendToUser(lbEvent.userId, "leaderboard_update", lbEvent.event)
       ELSE UNCHANGED <<wsSent, lastSend>>
  /\ LET next == NextEntry(lbEvent.serial)
     IN  lbEvent' = [lbEvent EXCEPT !.pc = next.pc, !.serial = next.serial,
                                    !.userId = next.userId]
  /\ UNCHANGED <<sockets, clients, subscriptions, wanted, wsVersion, wsOps,
                 isAlive, wsFixed>>

NextWs ==
  \/ \E c \in Conns :
       \/ \E token \in Tokens : Connection(c, token)
       \/ Closing(c)
       \/ Close(c)
       \/ \E channel \in Channels : handleSubscribe(c, channel)
       \/ \E channel \in Channels : handleUnsubscribe(c, channel)
  \/ \E userId \in WsUsers : SendToUser_Call(userId)
  \/ broadcast
  \/ \E updates \in (SUBSET WsUsers) \ {{}} : handleLeaderboardUpdate(updates)
  \/ Smembers
  \/ Deliver

SpecWs == InitWs /\ [][NextWs]_vars

(***************************************************************************)
(* The heartbeat of WebSocketService, lines 203-215: every 30 seconds each *)
(* connection of wss.clients whose isAlive is false is terminated, every   *)
(* other one gets isAlive = false and a ping.  The 'pong' handler sets     *)
(* isAlive back to true.  ws.terminate() destroys the socket; the 'close'  *)
(* event follows and its handler takes the connection out of clients.      *)
(***************************************************************************)
MaxBeats == 3

\* wss.clients: the connections the server has accepted and not yet closed
WssClients == {c \in Conns : sockets[c].readyState \in {"OPEN", "CLOSING"}}

\* the connections the tick terminates
Dead == {c \in WssClients : isAlive[c] = "false"}

\* one run of the setInterval callback
heartbeat ==
  /\ beats < MaxBeats
  /\ sockets' = [c \in Conns |->
                   IF c \in Dead THEN [sockets[c] EXCEPT !.readyState = "CLOSING"]
                   ELSE sockets[c]]
  /\ killedAt' = [c \in Conns |->
                    IF c \in Dead /\ sockets[c].readyState = "OPEN" THEN Len(wsSent[c])
                    ELSE killedAt[c]]
  /\ isAlive' = [c \in Conns |-> IF c \in WssClients \ Dead THEN "false" ELSE isAlive[c]]
  /\ pinged' = [c \in Conns |->
                  IF c \in WssClients \ Dead /\ sockets[c].readyState = "OPEN" THEN TRUE
                  ELSE pinged[c]]
  /\ wsVersion' = wsVersion + Cardinality({c \in Dead : sockets[c].readyState = "OPEN"})
  /\ beats' = beats + 1
  /\ UNCHANGED <<clients, subscriptions, lbEvent, wsSent, wanted, lastSend, wsOps,
                 answered, wsFixed_NoLate, afterBeat>>

\* the peer answers the ping; the 'pong' handler, lines 98-101
\* mutant: the handler leaves isAlive as it is
Pong_Ignored(c) ==
  /\ sockets[c].readyState = "OPEN"
  /\ pinged[c]
  /\ pinged' = [pinged EXCEPT ![c] = FALSE]
  /\ answered' = [answered EXCEPT ![c] = @ + 1]
  /\ UNCHANGED <<sockets, clients, subscriptions, lbEvent, wsSent, wanted, lastSend,
                 wsVersion, wsOps, isAlive, killedAt, beats, wsFixed_NoLate, afterBeat>>

Pong(c) ==
  /\ sockets[c].readyState = "OPEN"
  /\ pinged[c]
  /\ isAlive' = [isAlive EXCEPT ![c] = "true"]
  /\ pinged' = [pinged EXCEPT ![c] = FALSE]
  /\ answered' = [answered EXCEPT ![c] = @ + 1]
  /\ UNCHANGED <<sockets, clients, subscriptions, lbEvent, wsSent, wanted, lastSend,
                 wsVersion, wsOps, killedAt, beats, wsFixed_NoLate, afterBeat>>

\* two connections, each with the token of user 1 or with a forged one
BeatConns == {1, 2}

BeatTokens == {1, 0 - 1}

NextBeat ==
  \/ \E c \in BeatConns :
       \/ \E token \in BeatTokens : Connection(c, token)
       \/ Closing(c)
       \/ Close(c)
       \/ Pong(c)
  \/ heartbeat
  \/ SendToUser_Call(1)

SpecBeat == InitWs /\ [][NextBeat]_vars

\* the 'close' event of a socket that is closing is emitted in the end
SpecBeatLive == SpecBeat /\ \A c \in BeatConns : WF_vars(Close(c))

(***************************************************************************)
(* WebSocketProvider of the client (websocket_provider.dart).  connect()   *)
(* awaits the stored token and then calls WebSocketChannel.connect, which  *)
(* returns a channel at once: the socket opens, or fails, afterwards, and  *)
(* a failure reaches the provider as an error or done event of the stream. *)
(***************************************************************************)
\* static const int _maxReconnectAttempts = 5
maxReconnectAttempts == 5

\* the firings of the reconnect timer in a run
MaxTries == 8

wsOwn == <<sockets, clients, subscriptions, lbEvent, wsSent, wanted, lastSend, wsVersion,
           wsOps, isAlive>>

reconnFixed == <<wsFixed_NoLate, wsOwn, beatVars, mockVars>>

\* _scheduleReconnect, lines 155-169: the timer is pending afterwards
scheduleReconnect(attempts, timer) ==
  IF attempts >= maxReconnectAttempts THEN timer ELSE TRUE

\* connect(), lines 48-53, up to the await of the token
connect ==
  IF status \in {"connecting", "connected"}
    THEN UNCHANGED <<status, connectPc>>
    ELSE status' = "connecting" /\ connectPc' = "getAuthToken"

\* the application opens the provider's connection for the first time
Start ==
  /\ status = "disconnected"
  /\ connectPc = "idle"
  /\ wsChannel = "null"
  /\ ~reconnectTimer
  /\ tries = 0
  /\ connect
  /\ UNCHANGED <<wsChannel, reconnectAttempts, reconnectTimer, doneDue, failedRun, tries,
                 reconnFixed>>

\* connect(), lines 55-85, after the token has been read: without a token
\* the catch block schedules a reconnect; with one the channel is created,
\* the status is connected and the attempts are reset
GetAuthToken(token) ==
  /\ connectPc = "getAuthToken"
  /\ connectPc' = "idle"
  /\ IF token = "null"
       THEN /\ status' = "error"
            /\ reconnectTimer' = scheduleReconnect(reconnectAttempts, reconnectTimer)
            /\ UNCHANGED <<wsChannel, reconnectAttempts>>
       ELSE /\ wsChannel' = "opening"
            /\ status' = "connected"
            /\ reconnectAttempts' = 0
            /\ UNCHANGED reconnectTimer
  /\ UNCHANGED <<doneDue, failedRun, tries, reconnFixed>>

\* the server accepts: the connection is established
ChannelOpens ==
  /\ wsChannel = "opening"
  /\ wsChannel' = "open"
  /\ failedRun' = 0
  /\ UNCHANGED <<status, reconnectAttempts, reconnectTimer, connectPc, doneDue, tries,
                 reconnFixed>>

\* _handleError, lines 141-146, with _cleanup and _scheduleReconnect: the
\* socket could not be opened or has failed
handleError ==
  /\ wsChannel \in {"opening", "open"}
  /\ status' = "error"
  /\ wsChannel' = "null"
  /\ reconnectTimer' = scheduleReconnect(reconnectAttempts, FALSE)
  /\ doneDue' = TRUE
  /\ UNCHANGED <<reconnectAttempts, connectPc, failedRun, tries, reconnFixed>>

\* _handleDone, lines 148-153: the stream has ended, after an error or
\* because the peer closed
handleDone ==
  /\ wsChannel \in {"opening", "open"} \/ doneDue
  /\ status' = "disconnected"
  /\ wsChannel' = "null"
  /\ reconnectTimer' = scheduleReconnect(reconnectAttempts, FALSE)
  /\ doneDue' = FALSE
  /\ UNCHANGED <<reconnectAttempts, connectPc, failedRun, tries, reconnFixed>>

\* the timer callback, lines 164-167; the done event of a failed stream
\* comes seconds before it
TimerFires ==
  /\ tries < MaxTries
  /\ reconnectTimer
  /\ ~doneDue
  /\ reconnectTimer' = FALSE
  /\ reconnectAttempts' = reconnectAttempts + 1
  /\ failedRun' = failedRun + 1
  /\ tries' = tries + 1
  /\ connect
  /\ UNCHANGED <<wsChannel, doneDue, reconnFixed>>

NextReconn ==
  \/ Start
  \/ \E token \in {"null", "token"} : GetAuthToken(token)
  \/ ChannelOpens
  \/ handleError
  \/ handleDone
  \/ TimerFires

SpecReconn == InitWs /\ [][NextReconn]_vars

(***************************************************************************)
(* MockTradingService.closeMockPosition, lines 304-383, for one open       *)
(* position.  The user closes it (manual), the timer of scheduleAutoClose  *)
(* closes it (auto_timeout), and checkAutoCloseConditions closes it at 20% *)
(* profit or loss (auto_limit); each of them is one call, and the calls    *)
(* may overlap.  Each call runs its statements in a transaction of its own *)
(* at the default isolation level: the SELECT reads the committed row, the *)
(* UPDATE waits for the row lock and then works on the committed row.      *)
(***************************************************************************)
mockFixed == <<wsFixed_NoLate, wsOwn, beatVars, reconnVars>>

\* getCurrentPrice is random: the position closes at a loss or at a profit
PnlAmounts == {0 - 1, 1}

\* lines 309-313: pool.connect() and BEGIN
closeMockPosition(reason) ==
  /\ closeCalls[reason].pc = "idle"
  /\ closeCalls[reason].result = ""
  /\ closeCalls' = [closeCalls EXCEPT ![reason].pc = "select"]
  /\ UNCHANGED <<tradeStatus, wins_count, rowLock, closes, rewardCalls, notifications,
                 mockFixed>>

\* lines 316-329: SELECT * FROM trades, and the status test; the throw ends
\* in the catch block (ROLLBACK, rethrow)
SelectPosition(reason) ==
  /\ closeCalls[reason].pc = "select"
  /\ IF tradeStatus # "open"
       THEN closeCalls' = [closeCalls EXCEPT
                             ![reason].pc = "idle",
                             ![reason].result = "Position already closed"]
       ELSE closeCalls' = [closeCalls EXCEPT ![reason].pc = "update"]
  /\ UNCHANGED <<tradeStatus, wins_count, rowLock, closes, rewardCalls, notifications,
                 mockFixed>>

\* lines 332-345: the price, the PnL and UPDATE trades SET status = 'closed'
\* WHERE id = $4, which takes the row lock
UpdateTrades(reason, amount) ==
  /\ closeCalls[reason].pc = "update"
  /\ rowLock \in {"none", reason}
  /\ rowLock' = reason
  /\ closeCalls' = [closeCalls EXCEPT ![reason].pc = "commit", ![reason].pnl = amount]
  /\ UNCHANGED <<tradeStatus, wins_count, closes, rewardCalls, notifications, mockFixed>>

\* lines 348-357: UPDATE user_stats SET wins_count = wins_count + 1 when the
\* PnL is positive, and COMMIT
CommitClose(reason) ==
  /\ closeCalls[reason].pc = "commit"
  /\ tradeStatus' = "closed"
  /\ closes' = closes + 1
  /\ wins_count' = IF closeCalls[reason].pnl > 0 THEN wins_count + 1 ELSE wins_count
  /\ rowLock' = "none"
  /\ closeCalls' = [closeCalls EXCEPT ![reason].pc = "awardMockXP"]
  /\ UNCHANGED <<rewardCalls, notifications, mockFixed>>

\* lines 362-366: awardMockXP(userId, 'mock_trade_closed', ...)
AwardMockXP(reason) ==
  /\ closeCalls[reason].pc = "awardMockXP"
  /\ rewardCalls' = rewardCalls + 1
  /\ closeCalls' = [closeCalls EXCEPT ![reason].pc = "notify"]
  /\ UNCHANGED <<tradeStatus, wins_count, rowLock, closes, notifications, mockFixed>>

\* lines 369-374: notifyPositionClosed, and the position is returned
notifyPositionClosed(reason) ==
  /\ closeCalls[reason].pc = "notify"
  /\ notifications' = Append(notifications, reason)
  /\ closeCalls' = [closeCalls EXCEPT ![reason].pc = "idle", ![reason].result = "closed"]
  /\ UNCHANGED <<tradeStatus, wins_count, rowLock, closes, rewardCalls, mockFixed>>

NextMock ==
  \E reason \in Closers :
    \/ closeMockPosition(reason)
    \/ SelectPosition(reason)
    \/ \E amount \in PnlAmounts : UpdateTrades(reason, amount)
    \/ CommitClose(reason)
    \/ AwardMockXP(reason)
    \/ notifyPositionClosed(reason)

SpecMock == InitWs /\ [][NextMock]_vars

(***************************************************************************)
(* LeaderboardService (AchivementService.ts) as writer and reader: the     *)
(* score updates of updateUserScore next to the cached pages of            *)
(* getLeaderboard.                                                         *)
(***************************************************************************)
InitCache ==
  /\ now = StartTime
  /\ CoreAtRest([u \in RankUsers |-> StatsRow(0, 1, 0)], {})
  /\ lastWeekly = NeverWritten
  /\ scoreCalls = [p \in Scorers |-> NoScoreCall]
  /\ updateQueue = {}
  /\ snapshots = {}
  /\ rollover = NoRollover
  /\ rankLog = {}
  /\ rolledAt = NoKey
  /\ rankOps = 0
  /\ users = Movers
  /\ awards = << >>
  /\ cache = {}
  /\ listing = NoListing
  /\ boardOps = 0
  /\ SyncAtRest
  /\ LedgerAtRest
  /\ WsAtRest

\* the pages asked for: the first page and the page from the second place
CachePages == {[type |-> "global", limit |-> 100, offset |-> 0],
               [type |-> "weekly", limit |-> 2, offset |-> 1]}

CacheScores == {885, 905}

NextCache ==
  \/ \E p \in Scorers :
       \/ \E userId \in Movers, newXP \in CacheScores : updateUserScore(p, userId, newXP)
       \/ ZrevrankOld(p)
       \/ ZaddScore(p)
       \/ ZrevrankNew(p)
  \/ \E page \in CachePages : getLeaderboard(page.type, page.limit, page.offset)

SpecCache == InitCache /\ [][NextCache]_vars

(***************************************************************************)
(* Every writer of user_stats.xp_total together: awardXP of XPService, the *)
(* weekly reward of LeaderboardService and unlockAchievement of            *)
(* AchievementService, over the stores of awardXP.                         *)
(***************************************************************************)
\* initializeAchievements: the epic achievement of lines 122-127
achievementsList ==
  {[id |-> "profit_prophet", rarity |-> "epic", xpReward |-> 1000]}

\* the place the one user of this model took in last week's ranking
WeeklyRanks == {1}

\* UPDATE user_stats SET xp_total = xp_total + amount WHERE user_id = userId
\* (no row of a user without a profile is matched)
AddToTotal(userId, amount) ==
  [user_stats EXCEPT ![userId] =
     IF @.exists THEN [@ EXCEPT !.xp_total = @ + amount] ELSE @]

\* a row the UPDATE has to wait for: an awardXP transaction holds its lock
RowLocked(u) == RowLockedByOther(0, u)

Unlocked(userId, id) == [user_id |-> userId, achievement_type |-> id] \in achievements

\* AchievementService.unlockAchievement, called by checkAchievements for an
\* achievement the user has no row of: the row and the reward in one
\* transaction, then the mint of an epic or legendary achievement and the
\* notification
unlockAchievement(userId, achievement) ==
  /\ ~Unlocked(userId, achievement.id)
  /\ ~RowLocked(userId)
  /\ achievements' = achievements \cup
                       {[user_id |-> userId, achievement_type |-> achievement.id]}
  /\ user_stats' = AddToTotal(userId, achievement.xpReward)
  /\ minted' = IF achievement.rarity \in {"epic", "legendary"}
                 THEN Append(minted, [user_id |-> userId,
                                      achievement_type |-> achievement.id])
                 ELSE minted
  /\ wsOut' = Append(wsOut, [to |-> userId, type |-> "achievement_unlocked",
                             data |-> achievement.id])
  /\ UNCHANGED <<now, xp_logs, cooldowns, leaderboard, xp_intents, pc, loc, calls,
                 effects, faults, fixedVars>>

\* awardWeeklyRewards, lines 1099-1108, for one user of the top three:
\* awardBonusXP, then awardAchievement.  The rollover runs once a week, so a
\* user is rewarded once in the minute the clock covers.
awardWeeklyReward(userId, rank) ==
  /\ \A r \in DOMAIN WeeklyRewards : ~Unlocked(userId, WeeklyRewards[r].achievement)
  /\ ~RowLocked(userId)
  /\ user_stats' = AddToTotal(userId, WeeklyRewards[rank].xp)
  /\ achievements' = achievements \cup
                       {[user_id |-> userId,
                         achievement_type |-> WeeklyRewards[rank].achievement]}
  /\ UNCHANGED <<now, xp_logs, minted, cooldowns, leaderboard, xp_intents, wsOut, pc,
                 loc, calls, effects, faults, fixedVars>>

NextXp ==
  \/ Next
  \/ \E u \in Users, achievement \in achievementsList : unlockAchievement(u, achievement)
  \/ \E u \in Users, rank \in WeeklyRanks : awardWeeklyReward(u, rank)

SpecXp == Init /\ [][NextXp]_vars

(***************************************************************************)
(* Vocabulary of the properties.                                           *)
(***************************************************************************)
AllIdle == \A p \in Procs : pc[p] = "idle"

Finished(c) == calls[c].result # "pending"

EffectsOf(c) == {e \in effects : e[1] = c}

RECURSIVE SumAmounts(_, _)
SumAmounts(cs, u) ==
  IF cs = {} THEN 0
  ELSE LET c == CHOOSE x \in cs : TRUE
       IN  (IF calls[c].user = u THEN calls[c].amount ELSE 0) + SumAmounts(cs \ {c}, u)

\* the highest level whose threshold is at most xp, by definition
HighestLevel(xp) ==
  CHOOSE L \in DOMAIN levelThresholds :
    /\ levelThresholds[L] <= xp
    /\ \A M \in DOMAIN levelThresholds : levelThresholds[M] <= xp => M <= L

LoggedToday(u, a, d) ==
  Cardinality({i \in DOMAIN xp_logs : /\ xp_logs[i].user_id = u
                                      /\ xp_logs[i].action_type = a
                                      /\ xp_logs[i].created_at = d})

(***************************************************************************)
(* C1: once all awardXP calls have returned, the stored xp_total of every  *)
(* user is its initial value plus the sum of the amounts of exactly the    *)
(* calls that returned success.                                            *)
(***************************************************************************)
C1_TotalIsSumOfSuccessfulAwards ==
  AllIdle =>
    \A u \in Users :
      user_stats[u].exists =>
        user_stats[u].xp_total =
          total0[u] + SumAmounts({c \in DOMAIN calls : calls[c].result = "true"}, u)

\* the same sum over the calls whose transaction committed
TotalIsSumOfCommittedAwards ==
  AllIdle =>
    \A u \in Users :
      user_stats[u].exists =>
        user_stats[u].xp_total =
          total0[u] + SumAmounts({c \in DOMAIN calls : calls[c].committed}, u)

(***************************************************************************)
(* C2: a step that commits an awardXP leaves the stored level equal to the *)
(* highest level whose threshold is at most the stored xp_total; the level *)
(* field changes only to that level and only upwards.                      *)
(***************************************************************************)
C2_LevelMatchesTotal ==
  [][/\ \A c \in DOMAIN calls :
          (~calls[c].committed /\ calls'[c].committed) =>
            user_stats'[calls[c].user].level =
              HighestLevel(user_stats'[calls[c].user].xp_total)
     /\ \A u \in Users :
          (user_stats[u].exists /\ user_stats'[u].level # user_stats[u].level) =>
            /\ user_stats'[u].level > user_stats[u].level
            /\ user_stats'[u].level = HighestLevel(user_stats'[u].xp_total)]_vars

\* a committed award has taken the user from level 4 to level 5
C2_Witness ==
  \E c \in DOMAIN calls :
    /\ calls[c].committed
    /\ user_stats[calls[c].user].level = 5
    /\ total0[calls[c].user] < 1000

(***************************************************************************)
(* C3: for an action with cooldown C, two finished awardXP calls of one    *)
(* user for that action, issued within C of each other, are one success    *)
(* and one rejection (stated for users with a profile in runs without      *)
(* store failures).                                                        *)
(***************************************************************************)
C3_CooldownOneSuccessOneRejection ==
  faults = 0 =>
    \A i, j \in DOMAIN calls :
      ( /\ i < j
        /\ calls[i].user = calls[j].user
        /\ calls[i].action = calls[j].action
        /\ calls[i].action \in ActionTypes
        /\ calls[i].hadProfile
        /\ Finished(i) /\ Finished(j)
        /\ xpActions[calls[i].action].cooldown # 0
        /\ calls[j].start - calls[i].start < xpActions[calls[i].action].cooldown )
      => ( /\ calls[i].result = "true" \/ calls[j].result = "true"
           /\ calls[i].result # "true" \/ calls[j].result # "true" )

(***************************************************************************)
(* C4: the step in which an awardXP call is rejected for an unknown action *)
(* id, a cooldown or the daily cap returns false and changes no store, and *)
(* neither did any earlier step of that call: every step of a call that is *)
(* still at its guards leaves all stores as they are.                      *)
(***************************************************************************)
GuardRejections == {"invalid-action", "cooldown", "daily-cap"}

AtGuards == {"idle", "checkCooldown", "getDailyActionCount"}

C4_RejectionChangesNothing ==
  [][/\ \A c \in DOMAIN calls' :
          ( /\ calls'[c].reason \in GuardRejections
            /\ (c \in DOMAIN calls => calls[c].result = "pending") )
          => /\ calls'[c].result = "false"
             /\ ~calls'[c].committed
             /\ UNCHANGED storeVars
             /\ {e \in effects' : e[1] = c} = {}
     /\ \A p \in Procs :
          (pc[p] \in AtGuards /\ pc'[p] # pc[p]) => UNCHANGED storeVars]_vars

\* a call was rejected on cooldown 10 s after the award that set the key
C4_Witness ==
  \E c \in DOMAIN calls :
    /\ calls[c].reason = "cooldown"
    /\ calls[c].result = "false"
    /\ calls[c].start = StartTime + 10

(***************************************************************************)
(* C5: an awardXP call whose durable transaction failed returns false and  *)
(* leaves no effect behind: no log row, total or level change, achievement *)
(* row, mint, notification, ranking update or queued intent.               *)
(***************************************************************************)
C5_FailedTransactionLeavesNothing ==
  \A c \in DOMAIN calls :
    (Finished(c) /\ calls[c].reason = "persistence-failed") =>
      /\ calls[c].result = "false"
      /\ ~calls[c].committed
      /\ EffectsOf(c) = {}

(***************************************************************************)
(* C6: an awardXP call whose transaction committed reports success to its  *)
(* caller, whatever fails afterwards.                                      *)
(***************************************************************************)
C6_CommittedReportsSuccess ==
  \A c \in DOMAIN calls : (Finished(c) /\ calls[c].committed) => calls[c].result = "true"

(***************************************************************************)
(* C7: for an action with a daily cap, the committed awards of that action *)
(* to one user on one day never exceed the cap.                            *)
(***************************************************************************)
C7_DailyCapNeverExceeded ==
  \A i \in DOMAIN xp_logs :
    xpActions[xp_logs[i].action_type].maxDaily # 0 =>
      LoggedToday(xp_logs[i].user_id, xp_logs[i].action_type, xp_logs[i].created_at)
        <= xpActions[xp_logs[i].action_type].maxDaily

(***************************************************************************)
(* C8: calculateXPAmount returns floor(base * s * e), an integer >= 0,     *)
(* with s = 1.2 for a streak >= 7, 1.1 for a streak of 3..6 and 1          *)
(* otherwise, e = 1.5 on Saturday and Sunday and 1 otherwise; base 100     *)
(* without streak on a weekday gives exactly 100.                          *)
(***************************************************************************)
ExactAmount(base, streak, dayOfWeek) ==
  LET s10 == IF streak >= 7 THEN 12 ELSE IF streak >= 3 /\ streak < 7 THEN 11 ELSE 10
      e2  == IF dayOfWeek \in {0, 6} THEN 3 ELSE 2
  IN  (base * s10 * e2) \div 20

C8_AmountIsFloorOfProduct ==
  (fnOut # << >> /\ Len(fnOut) = 1) =>
    /\ fnOut[1] = ExactAmount(fnIn[1], fnIn[2], fnIn[3])
    /\ fnOut[1] >= 0
    /\ (fnIn[1] = 100 /\ fnIn[2] = 0 /\ fnIn[3] \in 1..5) => fnOut[1] = 100

\* both multipliers applied: base 15 on a 7-day streak on a Saturday
C8_Witness == fnIn = <<15, 7, 6>> /\ fnOut = <<27>>

(***************************************************************************)
(* C9: calculateLevel returns the largest level in 1..10 whose threshold   *)
(* is at most the total; a total on a threshold gets the higher level      *)
(* (0 -> 1, 99 -> 1, 100 -> 2, 999 -> 4, 10000 -> 10); the result does not *)
(* decrease when the total grows.                                          *)
(***************************************************************************)
C9_LevelIsHighestReached ==
  (fnOut # << >> /\ Len(fnOut) = 2) =>
    /\ fnOut[1] = HighestLevel(fnIn)
    /\ fnOut[1] \in 1..10
    /\ fnOut[1] <= fnOut[2]
    /\ (fnIn = 0 => fnOut[1] = 1)
    /\ (fnIn = 99 => fnOut[1] = 1 /\ fnOut[2] = 2)
    /\ (fnIn = 100 => fnOut[1] = 2)
    /\ (fnIn = 999 => fnOut[1] = 4 /\ fnOut[2] = 5)
    /\ (fnIn = 10000 => fnOut[1] = 10)

\* the total 99, one below the threshold of level 2
C9_Witness == fnIn = 99 /\ fnOut = <<1, 2>>

(***************************************************************************)
(* C10: the first awardXP for a user without a reward profile creates the  *)
(* profile, applies the award to it and returns success (stated for valid  *)
(* action ids in runs without store failures).                             *)
(***************************************************************************)
C10_FirstAwardCreatesProfile ==
  faults = 0 =>
    \A c \in DOMAIN calls :
      ( /\ Finished(c)
        /\ ~calls[c].hadProfile
        /\ calls[c].action \in ActionTypes
        /\ \A b \in DOMAIN calls : (b < c /\ calls[b].user = calls[c].user) =>
                                     calls[b].action \notin ActionTypes )
      => /\ calls[c].result = "true"
         /\ user_stats[calls[c].user].exists

(***************************************************************************)
(* C11: no intent is dropped: once no drain is running, every intent that  *)
(* was ever pushed is still in xp_intents or belongs to a batch the ledger *)
(* confirmed.                                                              *)
(***************************************************************************)
DrainsIdle == \A d \in Drains : drains[d].pc = "idle"

C11_NoIntentDropped ==
  DrainsIdle => \A i \in queued : i \in Range(xp_intents) \/ i \in confirmed

(***************************************************************************)
(* C12: every committed award reaches the ledger: again and again, all the *)
(* intents pushed so far are confirmed.                                    *)
(***************************************************************************)
C12_CommittedAwardReachesLedger == []<>(queued \subseteq confirmed)

\* the XP the XPAwarded events of the functions fns gave user u
RECURSIVE SumOfEvents(_, _, _)
SumOfEvents(events, u, fns) ==
  IF events = << >> THEN 0
  ELSE (IF Head(events).user = u /\ Head(events).by \in fns THEN Head(events).amount ELSE 0)
         + SumOfEvents(Tail(events), u, fns)

(***************************************************************************)
(* C13: a replayed intent is never counted twice: the on-chain XP of a     *)
(* user is the sum of the amounts of the different updates submitted for   *)
(* the user, however often each was submitted, plus what award_xp gave.    *)
(***************************************************************************)
Submitted == UNION {Range(ledgerLog[i]) : i \in DOMAIN ledgerLog}

RECURSIVE SumOfUpdates(_)
SumOfUpdates(us) ==
  IF us = {} THEN 0
  ELSE LET x == CHOOSE y \in us : TRUE IN x.amount + SumOfUpdates(us \ {x})

C13_ReplayCountedOnce ==
  \A u \in Addresses :
    user_xp[u] = SumOfUpdates({x \in Submitted : x.user = u})
                   + SumOfEvents(xpEvents, u, {"award_xp"})

(***************************************************************************)
(* C14: after awards to distinct users that ran at the same time have all  *)
(* completed, in each window getUserRank of each of them is its place by   *)
(* total XP (any place among equal totals), a top-N listing holds all N of *)
(* them in descending order, and a user with no entry has rank null.       *)
(***************************************************************************)
Awarded == {u \in BoardUsers : awards[u].at # null}

\* all awards of the run were made at the present clock reading and have
\* completed, and only their users are ranked
Settled ==
  /\ \A u \in BoardUsers : awards[u].pc = "idle"
  /\ \A u \in Awarded : awards[u].at = now
  /\ \A e \in leaderboard : e.member \in BoardUsers

PlaceOK(u, rank) ==
  LET above == {v \in Awarded : user_stats[v].xp_total > user_stats[u].xp_total}
      level == {v \in Awarded \ {u} : user_stats[v].xp_total >= user_stats[u].xp_total}
  IN  rank # null /\ Cardinality(above) + 1 <= rank /\ rank <= Cardinality(level) + 1

Descending(entries) ==
  \A i \in 1..(Len(entries) - 1) : entries[i].xp >= entries[i + 1].xp

TopNOK(type) ==
  LET top == getLeaderboardResult(type, Cardinality(Awarded), 0)
  IN  {top[i].userId : i \in DOMAIN top} = Awarded /\ Descending(top)

C14_RanksMatchTotals ==
  Settled =>
    \A type \in Windows :
      /\ \A u \in Awarded : PlaceOK(u, getUserRank(leaderboard, u, type, now))
      /\ \A u \in BoardUsers \ Awarded : getUserRank(leaderboard, u, type, now) = null
      /\ Awarded # {} => TopNOK(type)

(***************************************************************************)
(* C15: every list getLeaderboard returns is in descending score order and *)
(* the rank of each entry is the rank getUserRank reports for that user at *)
(* that moment.                                                            *)
(***************************************************************************)
C15_ListingRanksAreTrueRanks ==
  listing # NoListing =>
    /\ Descending(listing.entries)
    /\ \A i \in DOMAIN listing.entries :
         listing.entries[i].rank = listing.ranks[listing.entries[i].userId]


\* an update qualifies for a notification: the rank moved by the threshold
\* or more, or the new rank is inside the top ten
Qualifies(r) ==
  \/ r.newRank # null /\ r.newRank < 10
  \/ /\ r.oldRank # null
     /\ r.newRank # null
     /\ \/ r.oldRank - r.newRank >= RANK_CHANGE_THRESHOLD
        \/ r.newRank - r.oldRank >= RANK_CHANGE_THRESHOLD

RankChangesSent == {i \in 1..Len(wsOut) : wsOut[i].type = "rank_change"}

\* C16: a ranking update of a user sends a rank_change notification if and
\* only if the rank moved by at least the threshold (10) or the new
\* 0-indexed rank is below 10, and the number of notifications sent equals
\* the number of qualifying updates.
C16_RankChangeNotifiedIffSignificant ==
  /\ \A r \in rankLog : r.notified <=> Qualifies(r)
  /\ Cardinality(RankChangesSent) = Cardinality({r \in rankLog : Qualifies(r)})

\* C17: when scores were written to the week's window, the clock moved into
\* a later week and resetWeeklyLeaderboard ran within seven days of the
\* write, a snapshot of the written week exists and its sorted set is empty.
C17_RolloverArchivesAndClears ==
  (/\ lastWeekly.at # null
   /\ rolledAt # null
   /\ rollover.pc = "idle"
   /\ lastWeekly.at < rolledAt
   /\ rolledAt - lastWeekly.at <= SecondsPerWeek
   /\ getLeaderboardKey("weekly", rolledAt) # lastWeekly.key)
    => /\ \E s \in snapshots : s.week = lastWeekly.key
       /\ Members(leaderboard, lastWeekly.key) = {}


\* the number of ws.send calls made on connection c by sendToUser call n
SendsOf(c, n) == Cardinality({i \in 1..Len(wsSent[c]) : wsSent[c][i].call = n})

\* connection c, as the call found it, was an open connection of the user
WasOpenFor(c) ==
  /\ lastSend.sockets[c].readyState = "OPEN"
  /\ lastSend.sockets[c].userId = lastSend.userId

\* C18: one sendToUser call sends its message exactly once to every open
\* connection of the user and to no other connection, whether of another
\* user, closing, or closed and removed.
C18_SendToUserReachesExactlyTheOpenConnections ==
  lastSend.call # 0 =>
    \A c \in Conns : SendsOf(c, lastSend.call) = IF WasOpenFor(c) THEN 1 ELSE 0

\* a call that found an open connection of the user, a closing one of the
\* same user that is still registered, and an open one of another user
C18_Witness ==
  /\ lastSend.call # 0
  /\ \E c, d, f \in Conns :
       /\ WasOpenFor(c) /\ SendsOf(c, lastSend.call) = 1
       /\ lastSend.sockets[d].readyState = "CLOSING"
       /\ lastSend.sockets[d].userId = lastSend.userId
       /\ d \in ClientsGet(clients, lastSend.userId)
       /\ SendsOf(d, lastSend.call) = 0
       /\ lastSend.sockets[f].readyState = "OPEN"
       /\ lastSend.sockets[f].userId # lastSend.userId
       /\ SendsOf(f, lastSend.call) = 0

\* the connections of user u that have not been closed
Connected(u) == {c \in Conns : sockets[c].userId = u
                                 /\ sockets[c].readyState \in {"OPEN", "CLOSING"}}

\* C19: the subscriptions in effect for a user are exactly those its
\* connected connections made and did not cancel: none outlives its
\* connection, and an unsubscribe removes only the sender's subscription.
C19_SubscriptionLivesWithItsConnection ==
  \A u \in WsUsers : subscriptions[u] = UNION {wanted[c] : c \in Connected(u)}

\* connection c was sent the leaderboard_update of the event last handled
GotEvent(c) ==
  \E i \in 1..Len(wsSent[c]) :
    wsSent[c][i].type = "leaderboard_update" /\ wsSent[c][i].event = lbEvent.event

\* C20: once a leaderboard event has been handled, with no connection or
\* subscription changing meanwhile, exactly the open connections subscribed
\* to 'leaderboard' were sent it.
C20_LeaderboardEventReachesSubscribers ==
  (lbEvent.pc = "done" /\ lbEvent.version = wsVersion) =>
    \A c \in Conns :
      GotEvent(c) <=> (sockets[c].readyState = "OPEN" /\ "leaderboard" \in wanted[c])


\* connection c is a member of some set of the clients map
Registered(c) == \E i \in DOMAIN clients : c \in clients[i].conns

\* C21: a connection whose token is missing or does not verify is closed,
\* is never in the clients map and is sent nothing; a connection whose token
\* verifies is sent 'connected' with its own userId as its first message.
C21_OnlyVerifiedConnectionsAreRegistered ==
  \A c \in Conns :
    sockets[c].readyState # "NONE" =>
      IF sockets[c].token \in WsUsers
        THEN /\ Len(wsSent[c]) >= 1
             /\ wsSent[c][1].type = "connected"
             /\ wsSent[c][1].userId = sockets[c].token
        ELSE /\ sockets[c].readyState \in {"CLOSING", "CLOSED"}
             /\ ~Registered(c)
             /\ wsSent[c] = << >>

\* a rejected connection and an accepted one, with a broadcast and a
\* sendToUser call made while both exist
C21_Witness ==
  \E c, d \in Conns :
    /\ sockets[c].token = 0 - 1
    /\ sockets[c].readyState = "CLOSING"
    /\ sockets[d].token \in WsUsers
    /\ Registered(d)
    /\ \E i \in 1..Len(wsSent[d]) : wsSent[d][i].type = "broadcast"
    /\ lastSend.call # 0
    /\ lastSend.sockets[c].readyState = "CLOSING"


\* the claim's rule of who may call which function of the contract
MayCall(fn, caller, backend) ==
  CASE fn = "award_xp" -> caller = "admin" \/ caller = backend
    [] fn = "batch_award_xp" -> caller = backend
    [] OTHER -> caller = "admin"

\* the last transaction left storage and events as it found them
NothingChanged == Storage = lastTx.before /\ Len(xpEvents) = lastTx.emitted

\* C22: a state-changing call reverts with 'Unauthorized caller' and changes
\* nothing exactly when its caller is not authorized for it: award_xp for the
\* admin and the backend, batch_award_xp for the backend, the other four for
\* the admin.
C22_UnauthorizedCallsRevert ==
  lastTx.n # 0 =>
    IF MayCall(lastTx.fn, lastTx.caller, lastTx.before.backend_address)
      THEN lastTx.error # "Unauthorized caller"
      ELSE lastTx.error = "Unauthorized caller" /\ NothingChanged

\* the old backend, after update_backend_address, is refused a batch
C22_Witness ==
  /\ lastTx.n # 0
  /\ lastTx.fn = "batch_award_xp"
  /\ lastTx.caller = "backend"
  /\ lastTx.before.backend_address = "other"
  /\ lastTx.error = "Unauthorized caller"
  /\ NothingChanged

AwardCalls == {"award_xp", "batch_award_xp"}

\* the last transaction left XP, levels and cooldowns as it found them
ProgressUnchanged ==
  /\ user_xp = lastTx.before.user_xp
  /\ user_level = lastTx.before.user_level
  /\ user_action_cooldowns = lastTx.before.user_action_cooldowns

\* C23, as stated: while the contract is paused, award_xp and batch_award_xp
\* revert with 'Contract is paused' for every caller.
C23_PausedRevertsForEveryCaller ==
  (lastTx.n # 0 /\ lastTx.before.is_paused /\ lastTx.fn \in AwardCalls)
    => lastTx.error = "Contract is paused"

\* C23, amended: while the contract is paused no call changes XP, level or
\* cooldown; award_xp and batch_award_xp revert, with 'Contract is paused'
\* for a caller authorized for them and 'Unauthorized caller' for any other;
\* when the contract is not paused no call reverts with 'Contract is paused'.
C23_PausedContractAwardsNothing ==
  lastTx.n # 0 =>
    /\ lastTx.before.is_paused => ProgressUnchanged
    /\ (lastTx.before.is_paused /\ lastTx.fn \in AwardCalls) =>
         lastTx.error =
           IF MayCall(lastTx.fn, lastTx.caller, lastTx.before.backend_address)
             THEN "Contract is paused" ELSE "Unauthorized caller"
    /\ ~lastTx.before.is_paused => lastTx.error # "Contract is paused"

\* an award accepted from the backend after the contract was paused and
\* unpaused
C23_Witness ==
  /\ lastTx.n # 0
  /\ lastTx.everPaused
  /\ ~lastTx.before.is_paused
  /\ lastTx.fn = "award_xp"
  /\ lastTx.caller = "backend"
  /\ lastTx.error = ""
  /\ user_xp # lastTx.before.user_xp


\* an award_xp for the same user and action succeeded less than 60 seconds
\* before the last transaction
AwardedJustBefore ==
  \E i \in 1..lastTx.emitted :
    /\ xpEvents[i].by = "award_xp"
    /\ xpEvents[i].user = lastTx.args.user
    /\ xpEvents[i].action_type = lastTx.args.action_type
    /\ lastTx.at < xpEvents[i].at + 60

\* C24: an award_xp for the same user and action made less than 60 seconds
\* after a successful one reverts with 'Action on cooldown' and leaves the
\* user's XP unchanged, whatever the block timestamp of the first award.
C24_SecondAwardWithinCooldownReverts ==
  (/\ lastTx.n # 0
   /\ lastTx.fn = "award_xp"
   /\ MayCall("award_xp", lastTx.caller, lastTx.before.backend_address)
   /\ ~lastTx.before.is_paused
   /\ AwardedJustBefore)
    => lastTx.error = "Action on cooldown" /\ user_xp = lastTx.before.user_xp

\* the highest level in 1..10 whose threshold is at most xp
ChainLevel(xp) ==
  CHOOSE l \in 1..10 :
    /\ level_thresholds[l] <= xp
    /\ \A k \in 1..10 : level_thresholds[k] <= xp => k <= l

HasAward(u) == \E i \in DOMAIN xpEvents : xpEvents[i].user = u

CallsWith(kind) == {c \in DOMAIN calls : <<c, kind>> \in effects}

XpGainedSent == {i \in DOMAIN wsOut : wsOut[i].type = "xp_gained"}

\* C26: in every awardXP call the durable commit, the ranking update, the
\* intent enqueue and the xp_gained notification happen in this order, after
\* the guard has let the call pass; the last three happen only for a call
\* whose transaction committed, and each of them exactly once for every
\* committed call.
C26_StepsInOrderOncePerCommit ==
  /\ \A c \in DOMAIN calls :
       /\ c \in CallsWith("xp_gained") => c \in CallsWith("lpush")
       /\ c \in CallsWith("lpush") => c \in CallsWith("zadd")
       /\ c \in CallsWith("zadd") => calls[c].committed
       /\ calls[c].committed => calls[c].reason \notin {"cooldown", "daily-cap", "guard-error"}
       /\ (calls[c].committed /\ calls[c].result # "pending") =>
            /\ c \in CallsWith("zadd")
            /\ c \in CallsWith("lpush")
            /\ c \in CallsWith("xp_gained")
  /\ Len(xp_intents) - Cardinality(CallsWith("lpush"))
       = Len(xp_logs) - Cardinality({c \in DOMAIN calls : calls[c].committed})
  /\ Cardinality(XpGainedSent) = Cardinality(CallsWith("xp_gained"))

\* C27: when an awardXP call for an action with a cooldown has returned, the
\* call has recorded the cooldown if and only if its transaction committed.
C27_CooldownRecordedIffCommitted ==
  \A c \in DOMAIN calls :
    (/\ calls[c].action \in ActionTypes
     /\ xpActions[calls[c].action].cooldown # 0
     /\ calls[c].result # "pending")
      => (c \in CallsWith("setex") <=> calls[c].committed)

\* C28: an awardXP call for an action with a cooldown whose cooldown check
\* finds the Redis store unavailable is rejected, and nothing is committed
\* or sent for it.
C28_GuardStoreFailureRejects ==
  \A c \in DOMAIN calls :
    (/\ calls[c].reason = "guard-error"
     /\ calls[c].action \in ActionTypes
     /\ xpActions[calls[c].action].cooldown # 0)
      => /\ calls[c].result = "threw"
         /\ ~calls[c].committed
         /\ \A e \in effects : e[1] # c

\* redis.exists failed in the cooldown check of a trade_executed call made
\* by a user with a profile and no cooldown running: the call was rejected
\* and the user's total is as before
C28_Witness ==
  \E c \in DOMAIN calls :
    /\ calls[c].action = "trade_executed"
    /\ calls[c].reason = "guard-error"
    /\ calls[c].result = "threw"
    /\ calls[c].hadProfile
    /\ ~KeyExists(<<calls[c].user, "trade_executed">>)
    /\ user_stats[calls[c].user].xp_total = total0[calls[c].user]


RECURSIVE SumOfLogs(_, _)
\* the sum of the amounts of the user's rows of xp_logs
SumOfLogs(logs, u) ==
  IF logs = << >> THEN 0
  ELSE (IF logs[1].user_id = u THEN logs[1].xp_amount ELSE 0) + SumOfLogs(Tail(logs), u)

\* C29: in every state the xp_total of each user is the sum of the amounts
\* of the user's rows of xp_logs, whichever operation changed it (awardXP,
\* the weekly reward, an achievement unlock), and a row of xp_logs, once
\* written, is never changed or removed.
C29_TotalIsSumOfLoggedEvents ==
  /\ [](\A u \in Users :
          user_stats[u].exists => user_stats[u].xp_total = SumOfLogs(xp_logs, u))
  /\ [][/\ Len(xp_logs') >= Len(xp_logs)
        /\ SubSeq(xp_logs', 1, Len(xp_logs)) = xp_logs]_vars


\* the score of a completed weekly update that is live, or was replaced by
\* a later write of the same user to the same key
LiveOrReplaced(r) ==
  \/ \E e \in leaderboard : e.key = r.key /\ e.member = r.userId /\ e.score = r.score
  \/ \E r2 \in rankLog : r2.key = r.key /\ r2.userId = r.userId /\ r2.call # r.call
  \/ \E p \in Scorers : /\ scoreCalls[p].pc = "zrevrankNew"
                        /\ scoreCalls[p].key = r.key
                        /\ scoreCalls[p].userId = r.userId
                        /\ scoreCalls[p].call # r.call

Archived(r) ==
  \E s \in snapshots :
    /\ s.week = r.key
    /\ \E i \in DOMAIN s.rankings :
         s.rankings[i].member = r.userId /\ s.rankings[i].score = r.score

\* C30: the rollover clears a week's sorted set only after a snapshot of it
\* was stored, and the score a live update wrote to that week's key, the
\* update having completed with its score in place, is either still live or
\* contained in the stored snapshot.
C30_RolloverKeepsConcurrentScores ==
  /\ [](\A r \in rankLog :
          (r.type = "weekly" /\ r.newRank # null) => LiveOrReplaced(r) \/ Archived(r))
  /\ [][(/\ rollover.pc = "del"
         /\ rollover'.pc = "idle"
         /\ Members(leaderboard, rollover.previousWeek) # {})
          => \E s \in snapshots : s.week = rollover.previousWeek]_vars


\* the intents a drain has handed to batchUpdateXP, or holds in the call
HandedOver ==
  confirmed \cup UNION {Range(drains[d].intents) :
                          d \in {e \in Drains : drains[e].pc = "batchUpdateXP"}}

\* an intent is held by at most one drain, and by none once it is confirmed
InOneBatch ==
  /\ \A d, e \in Drains :
       d # e => Range(drains[d].intents) \cap Range(drains[e].intents) = {}
  /\ \A d \in Drains : Range(drains[d].intents) \cap confirmed = {}

\* C31: the drains hand the intents to the ledger in the order of their
\* enqueueing (an intent is handed over only when every intent enqueued
\* before it has been, and a batch lists its intents oldest first), a batch
\* has at most 100 intents, and no intent is in two batches, also when two
\* drains overlap.
C31_FifoBatchesWithoutDuplicates ==
  /\ \A i \in HandedOver :
       \A j \in queued : j.timestamp < i.timestamp => j \in HandedOver
  /\ \A d \in Drains :
       /\ Len(drains[d].intents) <= BatchSize
       /\ \A m, n \in DOMAIN drains[d].intents :
            m < n => drains[d].intents[m].timestamp < drains[d].intents[n].timestamp
  /\ InOneBatch


\* the score stored for user u under key k, or null
ScoreIn(k, u) ==
  IF \E e \in leaderboard : e.key = k /\ e.member = u
    THEN (CHOOSE e \in leaderboard : e.key = k /\ e.member = u).score
    ELSE null

\* the three sorted sets XPService.updateLeaderboard writes at time t
XPKeys(t) ==
  {<<"global", 0>>, <<"weekly", getCurrentWeekKey(t)>>, <<"monthly", getCurrentMonthKey(t)>>}

\* C32: when all awardXP calls have returned, and returned true, the score
\* of an awarded user in each of the three windows is the user's xp_total,
\* also when the calls overlapped.
C32_RankingFollowsTotal ==
  (/\ AllIdle
   /\ calls # << >>
   /\ \A c \in DOMAIN calls : calls[c].result = "true")
    => \A c \in DOMAIN calls :
         \A k \in XPKeys(now) : ScoreIn(k, calls[c].user) = user_stats[calls[c].user].xp_total


\* the updateUserScore call of record r has written all three windows
ScoreCallDone(r) == \E m \in rankLog : m.call = r.call /\ m.type = "monthly"

\* the score record r wrote is the user's score now and lies on the page
OnPage(r, type, limit, offset) ==
  LET rank == zrevrank(leaderboard, r.key, r.userId)
  IN  /\ r.key = getLeaderboardKey(type, now)
      /\ ScoreIn(r.key, r.userId) = r.score
      /\ HasUserAndStats(r.userId)
      /\ rank # null
      /\ offset <= rank
      /\ rank < offset + limit

\* C33: a getLeaderboard call made after an updateUserScore call has
\* completed returns, whatever its limit and offset, a page that shows the
\* user with the score that call wrote, when that is the user's score and
\* place on the page.
C33_LeaderboardShowsCompletedUpdate ==
  [][boardOps' = boardOps + 1 =>
       \A r \in rankLog :
         (ScoreCallDone(r) /\ OnPage(r, listing'.type, listing'.limit, listing'.offset))
           => \E i \in DOMAIN listing'.entries :
                /\ listing'.entries[i].userId = r.userId
                /\ listing'.entries[i].xp = r.score]_vars


SnapshotsOf(snaps, week) == {s \in snaps : s.week = week}

\* the weekly bonus of the user at place i of a snapshot's ranking
BonusOf(s, u) ==
  IF \E i \in Rewarded(s.rankings) : s.rankings[i].member = u
    THEN WeeklyRewards[CHOOSE i \in Rewarded(s.rankings) : s.rankings[i].member = u].xp
    ELSE 0

RECURSIVE BonusOver(_, _, _)
\* the bonuses a user is due over a set of closed weeks, one snapshot a week
BonusOver(snaps, weeks, u) ==
  IF weeks = {} THEN 0
  ELSE LET w == CHOOSE w \in weeks : TRUE
           s == CHOOSE s \in SnapshotsOf(snaps, w) : TRUE
       IN  BonusOf(s, u) + BonusOver(snaps, weeks \ {w}, u)

\* C34: when resetWeeklyLeaderboard completes for a week that had a ranking,
\* at the first run or at a run repeated after a failure, one snapshot of
\* that week is stored and every user holds the bonus of the user's place
\* among the first three (1000, 500, 250) once for each closed week.
C34_OneSnapshotOneBonusPerWeek ==
  [][(/\ rollover.pc = "del"
      /\ Len(rollover.topUsers) > 0
      /\ rollover'.pc = "idle"
      /\ leaderboard' # leaderboard)
       => /\ Cardinality(SnapshotsOf(snapshots', rollover.previousWeek)) = 1
          /\ \A u \in DOMAIN user_stats :
               user_stats'[u].xp_total =
                 total0[u] + BonusOver(snapshots', {s.week : s \in snapshots'}, u)]_vars


(***************************************************************************)
(* The level achievements of awardXP.  The largest single award is         *)
(* streak_30 on a streak of 7 days at a weekend: floor(500 * 1.2 * 1.5) =  *)
(* 900 XP.  The callers here pass streak_30 as well, on a Thursday or on   *)
(* the Saturday after it, and no store fails.                              *)
(***************************************************************************)
LevelInputs == {"trade_executed", "mock_trade", "streak_30"}

LevelClock == {StartTime, Saturday}

RequestLevel(p) ==
  /\ Len(calls) < MaxCalls
  /\ \A q \in Procs : q < p => pc[q] # "idle"
  /\ \E u \in Users, a \in LevelInputs : AwardXP(p, u, a)

NextLevelUp ==
  \/ \E p \in Procs : RequestLevel(p) \/ Step(p)
  \/ \E t \in LevelClock : Tick(t)

SpecLevelUp == Init /\ [][NextLevelUp]_vars

Holds(u, achievementType) ==
  [user_id |-> u, achievement_type |-> achievementType] \in achievements

\* C35: a user whose stored level is 5 or more holds 'basic_trader', and a
\* user whose stored level is 10 holds 'castle_lord', whatever awards raised
\* the level, one award raising it by more than one level included.
C35_LevelAchievementsFollowLevel ==
  \A u \in Users :
    user_stats[u].exists =>
      /\ (user_stats[u].level >= 5 => Holds(u, "basic_trader"))
      /\ (user_stats[u].level = 10 => Holds(u, "castle_lord"))


\* the weekly scores the awards of this run have written in the week of the
\* clock
WrittenThisWeek ==
  {e \in leaderboard : e.key = XPKey("weekly", now) /\ e.member \in BoardUsers}

\* C36: the weekly key awardXP writes a score to is the key the leaderboard
\* queries of both leaderboard services read at the same instant, so the
\* score is found by them in the week it was awarded.
C36_WeeklyKeyWrittenIsKeyRead ==
  \A e \in WrittenThisWeek :
    /\ getLeaderboardKey("weekly", now) = e.key
    /\ getLeaderboardKeyPlain("weekly", now) = e.key


\* a tick terminates exactly the open connections that left the ping of the
\* tick before unanswered
TickTerminatesTheSilent ==
  beats' = beats + 1 =>
    \A c \in BeatConns :
      sockets[c].readyState = "OPEN" =>
        (sockets'[c].readyState # "OPEN" <=> pinged[c])

\* nothing is sent on a connection after the heartbeat has terminated it
NoMessageAfterTerminate ==
  \A c \in BeatConns : killedAt[c] # NotKilled => Len(wsSent[c]) = killedAt[c]

\* C37: the heartbeat terminates no connection that has answered the last
\* ping before the tick, it terminates at the tick a connection that has
\* left the ping unanswered, such a connection leaves the clients map in the
\* end and no message is sent on it after the termination.
C37_HeartbeatDropsOnlySilentConnections ==
  /\ [][TickTerminatesTheSilent]_vars
  /\ []NoMessageAfterTerminate
  /\ \A c \in BeatConns : (killedAt[c] # NotKilled) ~> ~Registered(c)

\* connection 1 has answered two pings and is open after three ticks, while
\* connection 2 was terminated, is out of the map and user 1 got a message
\* after that
C37_Witness ==
  /\ beats = MaxBeats
  /\ answered[1] = 2
  /\ sockets[1].readyState = "OPEN"
  /\ killedAt[2] # NotKilled
  /\ sockets[2].readyState = "CLOSED"
  /\ ~Registered(2)
  /\ Len(wsSent[1]) > killedAt[2]
  /\ lastSend.call > 0


\* C38: the provider makes at most 5 reconnection attempts in a row without
\* a connection having been established, and the attempt counter goes back
\* to 0 only when a connection has been established.
C38_AtMostFiveAttemptsInARow ==
  /\ [](failedRun <= maxReconnectAttempts)
  /\ [][(reconnectAttempts > 0 /\ reconnectAttempts' = 0) => wsChannel' = "open"]_vars


\* the calls that have returned or thrown
Returned == {r \in Closers : closeCalls[r].result # ""}

InFlight == {r \in Closers : closeCalls[r].pc # "idle"}

\* C39: however the manual close, the close of the timer and the close at
\* the limit of one position overlap, the position is closed once, the wins
\* are counted, the closing reward is requested and the owner is notified
\* at most once, and when all calls are over one of them has closed the
\* position and every other one has failed with 'Position already closed'.
C39_OneCloseTakesEffect ==
  /\ closes <= 1
  /\ wins_count <= 1
  /\ rewardCalls <= 1
  /\ Len(notifications) <= 1
  /\ (InFlight = {} /\ Returned # {}) =>
       /\ Cardinality({r \in Returned : closeCalls[r].result = "closed"}) = 1
       /\ \A r \in Returned :
            closeCalls[r].result \in {"closed", "Position already closed"}

=============================================================================
